---- MODULE Spec2Model ----
(***************************************************************************)
(* CatFlap: the RF driver's power programming (src/src/rf.py).             *)
(*                                                                         *)
(* The radio handle `self.d` is the variable dev: the CC111x XDATA bytes   *)
(* the driver touches, the methods the rflib build offers (caps) and how   *)
(* its peek()/poke() behave.  Every driver method is an operator that      *)
(* takes and returns an execution state                                    *)
(*     [dev, calls, warns, err]                                            *)
(* (the device, the log of device calls, the log of logger.warning calls   *)
(* and the pending exception, "" for none), so that an operation of the    *)
(* driver is one action that applies the whole method.                     *)
(*                                                                         *)
(* The parsers of src/src/payload.py are operators on the contents of the  *)
(* file a path names (file) and on the arguments of the call (call); what  *)
(* the call returns or raises is ret.  The MQTT callback of src/src/main.py *)
(* takes a message (msg) in an AppState (app) and leaves the calls and      *)
(* prints it made in trace.                                                *)
(*                                                                         *)
(* run_discovery of src/src/discovery.py works on the scan directory and   *)
(* the cache file next to it (disk) and on the retained messages of the    *)
(* MQTT broker (broker); run holds the configuration and what the last run *)
(* published.                                                              *)
(***************************************************************************)
EXTENDS Integers, Sequences, FiniteSets, TLC

VARIABLES dev, dev0, req, calls, warns, result,
          file, call, ret, msg, app, trace,
          disk, broker, run

vars ==
    <<dev, dev0, req, calls, warns, result, file, call, ret, msg, app, trace,
      disk, broker, run>>

-----------------------------------------------------------------------------
(* Python values.  An argument typed Any is a tagged record. *)

None == [t |-> "none"]
IntV(n) == [t |-> "int", v |-> n]
BoolV(b) == [t |-> "bool", v |-> b]
StrV(parts) == [t |-> "str", parts |-> parts]
ListV(items) == [t |-> "list", items |-> items]
Other == [t |-> "other"]

(* 8-bit register arithmetic: Python's &, | and << on non-negative ints. *)
RECURSIVE BitAnd(_, _)
BitAnd(a, b) ==
    IF a = 0 \/ b = 0 THEN 0
    ELSE (a % 2) * (b % 2) + 2 * BitAnd(a \div 2, b \div 2)

RECURSIVE BitOr(_, _)
BitOr(a, b) ==
    IF a = 0 THEN b
    ELSE IF b = 0 THEN a
    ELSE (IF a % 2 = 1 \/ b % 2 = 1 THEN 1 ELSE 0) + 2 * BitOr(a \div 2, b \div 2)

RECURSIVE ShiftLeft(_, _)
ShiftLeft(a, n) == IF n = 0 THEN a ELSE ShiftLeft(2 * a, n - 1)

(* x & ~m for a byte x: Python's ~m is -(m+1), whose low 8 bits are 255-m. *)
AndNot(x, m) == BitAnd(x, 255 - m)

(* v & 0xFF for any Python int, negative ones included. *)
Byte(v) == v % 256

-----------------------------------------------------------------------------
(* Constants of rf.py. *)

FREND0_ADDR == 57115
PA_TABLE0_ADDR == 57134

Bands == {315, 433, 868, 915}

DbmKeys == <<-30, -20, -15, -10, -5, 0, 5, 7, 10>>

POWER_TABLE ==
    [band \in Bands |->
        CASE band = 315 -> <<18, 13, 28, 52, 43, 81, 133, 203, 194>>
          [] band = 433 -> <<18, 14, 29, 52, 44, 96, 132, 200, 192>>
          [] band = 868 -> <<3, 14, 30, 39, 143, 80, 132, 203, 194>>
          [] band = 915 -> <<3, 13, 29, 38, 87, 142, 131, 199, 192>>]

PatableAddrs == {PA_TABLE0_ADDR - i : i \in 0..7}

XdataAddrs == {FREND0_ADDR} \cup PatableAddrs

-----------------------------------------------------------------------------
(* Strings.  A Python str is StrV(parts): its pieces between commas, each a *)
(* literal of the lexicon below, so that "," in s is Len(parts) > 1.        *)

(* int(s.strip(), 0) of one literal; None stands for ValueError or blank. *)
IntLiteral(lit) ==
    CASE lit = "0" -> IntV(0)
      [] lit = "0x00" -> IntV(0)
      [] lit = "1" -> IntV(1)
      [] lit = " 3 " -> IntV(3)
      [] lit = "5" -> IntV(5)
      [] lit = "9" -> IntV(9)
      [] lit = "0x60" -> IntV(96)
      [] lit = "0xC0" -> IntV(192)
      [] lit = "0x1FF" -> IntV(511)
      [] lit = "315" -> IntV(315)
      [] lit = "433" -> IntV(433)
      [] lit = " 868" -> IntV(868)
      [] lit = "0x393" -> IntV(915)
      [] lit = "-5" -> IntV(-5)
      [] OTHER -> None

(* s.strip() == "" *)
IsBlank(lit) == lit \in {"", " "}

(* str.upper() and str.strip().lower() on the words the driver compares. *)
Upper(w) ==
    CASE w = "ask_ook" -> "ASK_OOK"
      [] w = "ook" -> "OOK"
      [] w = "ask" -> "ASK"
      [] w = "2fsk" -> "2FSK"
      [] w = "fsk" -> "FSK"
      [] w = "gfsk" -> "GFSK"
      [] w = "msk" -> "MSK"
      [] w = "ask_pwm" -> "ASK_PWM"
      [] OTHER -> w

StripLower(w) ==
    CASE w = "MAX" -> "max"
      [] w = " max " -> "max"
      [] w = "Manual" -> "manual"
      [] w = "SMART" -> "smart"
      [] w = " Default" -> "default"
      [] w = "AUTO" -> "auto"
      [] w = " auto " -> "auto"
      [] w = " " -> ""
      [] OTHER -> w

StartsWithASK(w) == w \in {"ASK", "ASK_OOK", "ASK_PWM"}

_parse_int(value) ==
    CASE value.t = "none" -> None
      [] value.t = "bool" -> IntV(IF value.v THEN 1 ELSE 0)
      [] value.t = "int" -> IntV(value.v)
      [] value.t = "str" ->
            IF Len(value.parts) # 1 THEN None
            ELSE IF IsBlank(value.parts[1]) THEN None
            ELSE IntLiteral(value.parts[1])
      [] OTHER -> None

(* for ... in parts: v = _parse_int(part); None if any fails; v & 0xFF *)
RECURSIVE ParseItems(_)
ParseItems(items) ==
    IF Len(items) = 0 THEN [ok |-> TRUE, out |-> <<>>]
    ELSE LET v == _parse_int(items[1])
             rest == ParseItems(Tail(items))
         IN  IF v.t = "none" \/ ~rest.ok THEN [ok |-> FALSE, out |-> <<>>]
             ELSE [ok |-> TRUE, out |-> <<Byte(v.v)>> \o rest.out]

(* [p.strip() for p in s.split(",") if p.strip()] *)
RECURSIVE NonBlankParts(_)
NonBlankParts(parts) ==
    IF Len(parts) = 0 THEN <<>>
    ELSE (IF IsBlank(parts[1]) THEN <<>> ELSE <<StrV(<<parts[1]>>)>>)
         \o NonBlankParts(Tail(parts))

(* Optional[list[int]]: None or ListV(bytes). *)
_parse_patable(value) ==
    CASE value.t = "none" -> None
      [] value.t \in {"int", "bool"} -> ListV(<<Byte(_parse_int(value).v)>>)
      [] value.t = "str" ->
            IF Len(value.parts) = 1 /\ IsBlank(value.parts[1]) THEN None
            ELSE IF Len(value.parts) > 1
            THEN LET r == ParseItems(NonBlankParts(value.parts))
                 IN  IF r.ok /\ Len(r.out) > 0 THEN ListV(r.out) ELSE None
            ELSE LET v == _parse_int(value)
                 IN  IF v.t = "none" THEN None ELSE ListV(<<Byte(v.v)>>)
      [] value.t = "list" ->
            LET r == ParseItems(value.items)
            IN  IF r.ok /\ Len(r.out) > 0 THEN ListV(r.out) ELSE None
      [] OTHER -> None

(* Mutant of _infer_band: a boundary frequency belongs to the lower band. *)
_infer_band_BoundaryLow(freq_hz) ==
    IF freq_hz <= 380000000 THEN 315
    ELSE IF freq_hz <= 600000000 THEN 433
    ELSE IF freq_hz <= 900000000 THEN 868
    ELSE 915

_infer_band(freq_hz) ==
    IF freq_hz < 380000000 THEN 315
    ELSE IF freq_hz < 600000000 THEN 433
    ELSE IF freq_hz < 900000000 THEN 868
    ELSE 915

_select_band(freq_hz, override) ==
    CASE override.t = "none" -> _infer_band(freq_hz)
      [] override.t = "str" ->
            IF Len(override.parts) = 1
               /\ (IsBlank(override.parts[1])
                   \/ StripLower(override.parts[1]) = "auto")
            THEN _infer_band(freq_hz)
            ELSE LET ov == _parse_int(override)
                 IN  IF ov.t = "int" /\ ov.v \in Bands THEN ov.v
                     ELSE _infer_band(freq_hz)
      [] override.t \in {"int", "bool"} ->
            LET ov == _parse_int(override)
            IN  IF ov.v \in Bands THEN ov.v ELSE _infer_band(freq_hz)
      [] OTHER -> _infer_band(freq_hz)

(* Mutant of _lookup_power_code: a missing dBm falls back to the 0 dBm entry. *)
_lookup_power_code_Default0(band, target_dbm) ==
    IF band \notin DOMAIN POWER_TABLE THEN None
    ELSE IF \E i \in DOMAIN DbmKeys : DbmKeys[i] = target_dbm
    THEN IntV(POWER_TABLE[band][CHOOSE i \in DOMAIN DbmKeys : DbmKeys[i] = target_dbm])
    ELSE IntV(POWER_TABLE[band][6])

_lookup_power_code(band, target_dbm) ==
    IF band \notin DOMAIN POWER_TABLE THEN None
    ELSE IF \E i \in DOMAIN DbmKeys : DbmKeys[i] = target_dbm
    THEN IntV(POWER_TABLE[band][CHOOSE i \in DOMAIN DbmKeys : DbmKeys[i] = target_dbm])
    ELSE None

-----------------------------------------------------------------------------
(* Execution states and the exceptions of rf.py. *)

NoErr == ""

ErrFrend0Read == "RuntimeError: FREND0 update requires firmware with peek()/poke() support"
ErrLodiv == "ValueError: frend0_lodiv_buf_current_tx must be 0..3"
ErrPaPower == "ValueError: frend0_pa_power must be 0..7"
ErrFrend0Write == "RuntimeError: Unable to write FREND0 (poke() failed)"
ErrPatableIndex == "ValueError: PATABLE index must be 0..7"
ErrPatableWrite == "RuntimeError: Unable to write PATABLE (poke() not available or failed)"
ErrPatableLen == "ValueError: patable list may have at most 8 entries (PA_TABLE0..PA_TABLE7)"
ErrPowerMode == "ValueError: Unknown tx_power_mode"
ErrModulation == "ValueError: Unknown modulation"
ErrIndex == "IndexError: index out of range"
ErrDevice == "DeviceError: the rflib call raised"
ErrIdle == "DeviceError: setModeIDLE raised"

Start(d) == [dev |-> d, calls |-> <<>>, warns |-> <<>>, err |-> NoErr]

Raise(s, e) == [s EXCEPT !.err = e]

Warn(s, w) == [s EXCEPT !.warns = Append(@, w)]

Log(s, op, a, v, ok) ==
    [s EXCEPT !.calls = Append(@, [op |-> op, a |-> a, v |-> v, ok |-> ok])]

hasattr(s, name) == name \in s.dev.caps

(* self.d.<op>(a): a call of the rflib handle, which raises when the device *)
(* fails at that call.                                                      *)
DeviceCall(s, op, a, v) ==
    IF op = "setModeIDLE" /\ s.dev.idleFails THEN Raise(Log(s, op, a, v, FALSE), ErrIdle)
    ELSE IF s.dev.failAt = op THEN Raise(Log(s, op, a, v, FALSE), ErrDevice)
    ELSE Log(s, op, a, v, TRUE)

-----------------------------------------------------------------------------
(* XDATA access. *)

(* Mutant of _xdata_read: a build without peek() reads as a zero byte. *)
_xdata_read_ZeroWithoutPeek(s, addr) ==
    IF ~hasattr(s, "peek") THEN [s |-> s, val |-> [t |-> "bytes", v |-> <<0>>]]
    ELSE LET mode == s.dev.peekMode
             s1 == Log(s, "peek", addr, 0, mode # "raises")
         IN  CASE mode = "raises" -> [s |-> s1, val |-> None]
               [] mode = "none" -> [s |-> s1, val |-> None]
               [] mode = "empty" -> [s |-> s1, val |-> [t |-> "bytes", v |-> <<>>]]
               [] OTHER -> [s |-> s1, val |-> [t |-> "bytes", v |-> <<s.dev.xdata[addr]>>]]

(* Returns [s, val]: val is None or [t |-> "bytes", v |-> <<...>>]. *)
_xdata_read(s, addr) ==
    IF ~hasattr(s, "peek") THEN [s |-> s, val |-> None]
    ELSE LET mode == s.dev.peekMode
             s1 == Log(s, "peek", addr, 0, mode # "raises")
         IN  CASE mode = "raises" -> [s |-> s1, val |-> None]
               [] mode = "none" -> [s |-> s1, val |-> None]
               [] mode = "empty" -> [s |-> s1, val |-> [t |-> "bytes", v |-> <<>>]]
               [] OTHER -> [s |-> s1, val |-> [t |-> "bytes", v |-> <<s.dev.xdata[addr]>>]]

(* One self.d.poke(addr, payload): it lands unless the device has stopped *)
(* taking pokes (pokeLeft = 0; -1 is a device that always takes them).    *)
Poke(s, addr, byte) ==
    IF s.dev.pokeLeft = 0
    THEN [s |-> Log(s, "poke", addr, byte, FALSE), ok |-> FALSE]
    ELSE [s |-> [Log(s, "poke", addr, byte, TRUE) EXCEPT
                    !.dev.xdata[addr] = byte,
                    !.dev.pokeLeft = IF @ > 0 THEN @ - 1 ELSE @],
          ok |-> TRUE]

(* for payload in candidates: try poke; return True on the first that lands *)
RECURSIVE TryCandidates(_, _, _, _)
TryCandidates(s, addr, byte, left) ==
    IF left = 0 THEN [s |-> s, ok |-> FALSE]
    ELSE LET r == Poke(s, addr, byte)
         IN  IF r.ok THEN r ELSE TryCandidates(r.s, addr, byte, left - 1)

(* The three forms of one payload: list(data), data, data.decode("latin-1"). *)
NumCandidates == 3

_xdata_write(s, addr, byte) ==
    IF ~hasattr(s, "poke") THEN [s |-> s, ok |-> FALSE]
    ELSE TryCandidates(s, addr, byte, NumCandidates)

RECURSIVE ReadAll(_, _)
ReadAll(s, addrs) ==
    IF Len(addrs) = 0 THEN s
    ELSE ReadAll(_xdata_read(s, addrs[1]).s, Tail(addrs))

(* Logs FREND0 and PA_TABLE0..7; every failure is swallowed. *)
_dump_power_regs(s) ==
    ReadAll(s, <<FREND0_ADDR>> \o [i \in 1..8 |-> PA_TABLE0_ADDR - (i - 1)])

_write_patable_index(s, index, value) ==
    IF index < 0 \/ index > 7 THEN Raise(s, ErrPatableIndex)
    ELSE LET w == _xdata_write(s, PA_TABLE0_ADDR - index, Byte(value))
         IN  IF w.ok THEN w.s ELSE Raise(w.s, ErrPatableWrite)

(* Mutant of FieldError: the upper limit of pa_power off by one. *)
FieldError_PaUpTo8(pa_power, lodiv) ==
    IF lodiv.t # "none" /\ ~(0 <= lodiv.v /\ lodiv.v <= 3) THEN ErrLodiv
    ELSE IF ~(0 <= pa_power /\ pa_power <= 8) THEN ErrPaPower
    ELSE NoErr

(* The range checks of _set_frend0, in the order the code makes them: the *)
(* exception raised, or NoErr.  lodiv is None or IntV(n).                 *)
FieldError(pa_power, lodiv) ==
    IF lodiv.t # "none" /\ ~(0 <= lodiv.v /\ lodiv.v <= 3) THEN ErrLodiv
    ELSE IF ~(0 <= pa_power /\ pa_power <= 7) THEN ErrPaPower
    ELSE NoErr

(* Mutants of NewFrend0. *)
NewFrend0_FieldsOnly(cur_val, pa_power, lodiv) ==
    BitAnd(pa_power, 7) + (IF lodiv.t = "none" THEN 0 ELSE ShiftLeft(BitAnd(lodiv.v, 3), 4))

NewFrend0_ClearsLodiv(cur_val, pa_power, lodiv) ==
    LET val1 == BitOr(AndNot(cur_val, ShiftLeft(3, 4)),
                      IF lodiv.t = "none" THEN 0 ELSE ShiftLeft(BitAnd(lodiv.v, 3), 4))
    IN  BitOr(AndNot(val1, 7), BitAnd(pa_power, 7))

NewFrend0_WideMask(cur_val, pa_power, lodiv) ==
    LET val1 == IF lodiv.t = "none" THEN cur_val
                ELSE BitOr(AndNot(cur_val, ShiftLeft(7, 4)),
                           ShiftLeft(BitAnd(lodiv.v, 3), 4))
    IN  BitOr(AndNot(val1, 7), BitAnd(pa_power, 7))

(* new_val of _set_frend0 for fields that passed the range checks. *)
NewFrend0(cur_val, pa_power, lodiv) ==
    LET val1 == IF lodiv.t = "none" THEN cur_val
                ELSE BitOr(AndNot(cur_val, ShiftLeft(3, 4)),
                           ShiftLeft(BitAnd(lodiv.v, 3), 4))
    IN  BitOr(AndNot(val1, 7), BitAnd(pa_power, 7))

(* pa_power is an int, lodiv_buf_current_tx is None or IntV(n). *)
_set_frend0(s, pa_power, lodiv_buf_current_tx) ==
    LET rd == _xdata_read(s, FREND0_ADDR)
        cur == rd.val
    IN  IF cur.t = "none" THEN Raise(rd.s, ErrFrend0Read)
        ELSE IF Len(cur.v) = 0 THEN Raise(rd.s, ErrIndex)
        ELSE LET cur_val == cur.v[1]
                 bad == FieldError(pa_power, lodiv_buf_current_tx)
                 new_val == NewFrend0(cur_val, pa_power, lodiv_buf_current_tx)
             IN  IF bad # NoErr THEN Raise(rd.s, bad)
                 ELSE IF new_val # cur_val
                 THEN LET w == _xdata_write(rd.s, FREND0_ADDR, new_val)
                      IN  IF w.ok THEN w.s ELSE Raise(w.s, ErrFrend0Write)
                 ELSE rd.s

IsAsk(modulation) ==
    Upper(modulation) \in {"ASK_OOK", "ASK", "OOK"} \/ StartsWithASK(Upper(modulation))

(* for idx in range(lo, hi + 1): self._write_patable_index(idx, value) *)
RECURSIVE FillPatable(_, _, _, _)
FillPatable(s, lo, hi, value) ==
    IF lo > hi THEN s
    ELSE LET s1 == _write_patable_index(s, lo, value)
         IN  IF s1.err # NoErr THEN s1 ELSE FillPatable(s1, lo + 1, hi, value)

(* for idx, v in enumerate(pt): self._write_patable_index(idx, v & 0xFF) *)
RECURSIVE WriteList(_, _, _)
WriteList(s, pt, idx) ==
    IF idx >= Len(pt) THEN s
    ELSE LET s1 == _write_patable_index(s, idx, Byte(pt[idx + 1]))
         IN  IF s1.err # NoErr THEN s1 ELSE WriteList(s1, pt, idx + 1)

(* Mutant of WriteSingle: the fill stops one index short of PA_POWER. *)
WriteSingle_StopsShort(s, is_ask, pa_power, on_val) ==
    LET s1 == IF is_ask THEN _write_patable_index(s, 0, 0) ELSE s
        start == IF is_ask THEN 1 ELSE 0
        s2 == IF s1.err # NoErr THEN s1 ELSE FillPatable(s1, start, pa_power - 1, on_val)
    IN  IF s2.err # NoErr THEN s2 ELSE _dump_power_regs(s2)

(* Mutant of WriteSeveral: the length limit off by one. *)
WriteSeveral_UpTo9(s, pt) ==
    IF Len(pt) > 9 THEN Raise(s, ErrPatableLen)
    ELSE LET s1 == WriteList(s, pt, 0)
         IN  IF s1.err # NoErr THEN s1 ELSE _dump_power_regs(s1)

(* A single PATABLE value: the ON level, filled up to PA_POWER. *)
WriteSingle(s, is_ask, pa_power, on_val) ==
    LET s1 == IF is_ask THEN _write_patable_index(s, 0, 0) ELSE s
        start == IF is_ask THEN 1 ELSE 0
        s2 == IF s1.err # NoErr THEN s1 ELSE FillPatable(s1, start, pa_power, on_val)
    IN  IF s2.err # NoErr THEN s2 ELSE _dump_power_regs(s2)

(* A PATABLE of several values: at most 8, each at its own index. *)
WriteSeveral(s, pt) ==
    IF Len(pt) > 8 THEN Raise(s, ErrPatableLen)
    ELSE LET s1 == WriteList(s, pt, 0)
         IN  IF s1.err # NoErr THEN s1 ELSE _dump_power_regs(s1)

_apply_manual_regs(s, modulation, frend0_pa_power, frend0_lodiv_buf_current_tx, patable) ==
    LET parsed == _parse_int(frend0_pa_power)
        lo_div == _parse_int(frend0_lodiv_buf_current_tx)
        pt == _parse_patable(patable)
        pa_power == IF parsed.t = "none" THEN 1 ELSE parsed.v
        s1 == _set_frend0(s, pa_power, lo_div)
    IN  IF s1.err # NoErr THEN s1
        ELSE IF pt.t = "none" THEN Warn(s1, "manual: patable not provided")
        ELSE IF Len(pt.items) = 1
        THEN WriteSingle(s1, IsAsk(modulation), pa_power, Byte(pt.items[1]))
        ELSE WriteSeveral(s1, pt.items)

(* Mutant of SmartRegs: the ASK/OOK layout is not applied. *)
SmartRegs_NoAskLayout(s, modulation, code, lodiv_buf_current_tx) ==
    LET s1 == _set_frend0(s, 0, _parse_int(lodiv_buf_current_tx))
    IN  IF s1.err # NoErr THEN s1 ELSE _write_patable_index(s1, 0, Byte(code))

(* Mutant of SmartFallback: setTxPower is preferred to setPower. *)
SmartFallback_TxPowerFirst(s, code) ==
    IF hasattr(s, "setTxPower") THEN DeviceCall(s, "setTxPower", code, 0)
    ELSE IF hasattr(s, "setPower") THEN DeviceCall(s, "setPower", code, 0)
    ELSE LET s1 == Warn(s, "smart: no setPower/setTxPower; falling back to max power")
         IN  IF hasattr(s1, "setMaxPower") THEN DeviceCall(s1, "setMaxPower", 0, 0)
             ELSE s1

(* The register path of smart mode (the body of its try block). *)
SmartRegs(s, modulation, code, lodiv_buf_current_tx) ==
    LET lo_div == _parse_int(lodiv_buf_current_tx)
    IN  IF IsAsk(modulation)
        THEN LET s1 == _set_frend0(s, 1, lo_div)
                 s2 == IF s1.err # NoErr THEN s1 ELSE _write_patable_index(s1, 0, 0)
             IN  IF s2.err # NoErr THEN s2
                 ELSE _write_patable_index(s2, 1, Byte(code))
        ELSE LET s1 == _set_frend0(s, 0, lo_div)
             IN  IF s1.err # NoErr THEN s1
                 ELSE _write_patable_index(s1, 0, Byte(code))

(* The fallback after the register path: setPower, setTxPower or max power. *)
SmartFallback(s, code) ==
    IF hasattr(s, "setPower") THEN DeviceCall(s, "setPower", code, 0)
    ELSE IF hasattr(s, "setTxPower") THEN DeviceCall(s, "setTxPower", code, 0)
    ELSE LET s1 == Warn(s, "smart: no setPower/setTxPower; falling back to max power")
         IN  IF hasattr(s1, "setMaxPower") THEN DeviceCall(s1, "setMaxPower", 0, 0)
             ELSE s1

(* Mutant of _apply_smart_power: a failure of the register path propagates. *)
_apply_smart_power_RegsPropagate(s, freq_hz, modulation, target_dbm, band_override, lodiv_buf_current_tx) ==
    LET parsed == _parse_int(target_dbm)
        t_dbm == IF parsed.t = "none" THEN 0 ELSE parsed.v
        band == _select_band(freq_hz, band_override)
        code == _lookup_power_code(band, t_dbm)
        can_regs == hasattr(s, "peek") /\ hasattr(s, "poke")
    IN  IF code.t = "none"
        THEN LET s1 == Warn(s, "smart: no table entry; falling back to max power")
             IN  IF hasattr(s1, "setMaxPower") THEN DeviceCall(s1, "setMaxPower", 0, 0)
                 ELSE s1
        ELSE IF can_regs
        THEN SmartRegs(s, modulation, code.v, lodiv_buf_current_tx)
        ELSE SmartFallback(s, code.v)

_apply_smart_power(s, freq_hz, modulation, target_dbm, band_override, lodiv_buf_current_tx) ==
    LET parsed == _parse_int(target_dbm)
        t_dbm == IF parsed.t = "none" THEN 0 ELSE parsed.v
        band == _select_band(freq_hz, band_override)
        code == _lookup_power_code(band, t_dbm)
        can_regs == hasattr(s, "peek") /\ hasattr(s, "poke")
    IN  IF code.t = "none"
        THEN LET s1 == Warn(s, "smart: no table entry; falling back to max power")
             IN  IF hasattr(s1, "setMaxPower") THEN DeviceCall(s1, "setMaxPower", 0, 0)
                 ELSE s1
        ELSE IF can_regs
        THEN LET s1 == SmartRegs(s, modulation, code.v, lodiv_buf_current_tx)
             IN  IF s1.err = NoErr THEN s1
                 ELSE SmartFallback(
                        Warn(Raise(s1, NoErr), "smart: regs path failed; falling back to setPower"),
                        code.v)
        ELSE SmartFallback(s, code.v)

(* Mutant of _apply_power_settings: "keep" and "none" program maximum power. *)
_apply_power_settings_KeepIsMax(s, freq_hz, modulation, tx_power_mode, tx_power_target_dbm, tx_power_band, frend0_pa_power, frend0_lodiv_buf_current_tx, patable) ==
    LET mode == StripLower(IF tx_power_mode = "" THEN "smart" ELSE tx_power_mode)
    IN  CASE mode \in {"max", "maximum", "full", "keep", "none"} ->
                IF hasattr(s, "setMaxPower") THEN DeviceCall(s, "setMaxPower", 0, 0) ELSE s
          [] mode \in {"default", "auto"} -> s
          [] mode \in {"smart", "preset", "table"} ->
                _apply_smart_power(s, freq_hz, modulation, tx_power_target_dbm,
                                   tx_power_band, frend0_lodiv_buf_current_tx)
          [] mode \in {"manual", "register", "frend0"} ->
                _apply_manual_regs(s, modulation, frend0_pa_power,
                                   frend0_lodiv_buf_current_tx, patable)
          [] OTHER -> Raise(s, ErrPowerMode)

(* Mutant of _apply_power_settings: an unknown mode leaves the power alone. *)
_apply_power_settings_UnknownIsDefault(s, freq_hz, modulation, tx_power_mode, tx_power_target_dbm, tx_power_band, frend0_pa_power, frend0_lodiv_buf_current_tx, patable) ==
    LET mode == StripLower(IF tx_power_mode = "" THEN "smart" ELSE tx_power_mode)
    IN  CASE mode \in {"max", "maximum", "full"} ->
                IF hasattr(s, "setMaxPower") THEN DeviceCall(s, "setMaxPower", 0, 0) ELSE s
          [] mode \in {"default", "auto", "keep", "none"} -> s
          [] mode \in {"smart", "preset", "table"} ->
                _apply_smart_power(s, freq_hz, modulation, tx_power_target_dbm,
                                   tx_power_band, frend0_lodiv_buf_current_tx)
          [] mode \in {"manual", "register", "frend0"} ->
                _apply_manual_regs(s, modulation, frend0_pa_power,
                                   frend0_lodiv_buf_current_tx, patable)
          [] OTHER -> s

(* tx_power_mode is a str; "" stands for every falsy value (None, ""). *)
_apply_power_settings(s, freq_hz, modulation, tx_power_mode, tx_power_target_dbm, tx_power_band, frend0_pa_power, frend0_lodiv_buf_current_tx, patable) ==
    LET mode == StripLower(IF tx_power_mode = "" THEN "smart" ELSE tx_power_mode)
    IN  CASE mode \in {"max", "maximum", "full"} ->
                IF hasattr(s, "setMaxPower") THEN DeviceCall(s, "setMaxPower", 0, 0) ELSE s
          [] mode \in {"default", "auto", "keep", "none"} -> s
          [] mode \in {"smart", "preset", "table"} ->
                _apply_smart_power(s, freq_hz, modulation, tx_power_target_dbm,
                                   tx_power_band, frend0_lodiv_buf_current_tx)
          [] mode \in {"manual", "register", "frend0"} ->
                _apply_manual_regs(s, modulation, frend0_pa_power,
                                   frend0_lodiv_buf_current_tx, patable)
          [] OTHER -> Raise(s, ErrPowerMode)

-----------------------------------------------------------------------------
(* Radio.transmit *)

MOD_ASK_OOK == 48
MOD_2FSK == 0
MANCHESTER == 8

(* A device call made only while no exception is pending. *)
Step(s, op, a, v) == IF s.err # NoErr THEN s ELSE DeviceCall(s, op, a, v)

(* The state after one more statement, as a singleton: the statement is applied
   to the value of the state before it, which is computed once. *)
Then(S, op, a, v) == {Step(s, op, a, v) : s \in S}

(* Mutant of DeviationApplies: a deviation is set for every modulation. *)
DeviationApplies_AnyModulation(r, mod) == r.deviation.t # "none"

(* deviation is not None and mod in ("2FSK", "FSK") *)
DeviationApplies(r, mod) == r.deviation.t # "none" /\ mod \in {"2FSK", "FSK"}

(* Mutant of TransmitBody: the power is applied before the modem is configured. *)
TransmitBody_PowerFirst(s, r) ==
    LET mod == Upper(r.modulation)
        isAsk == mod \in {"ASK_OOK", "OOK", "ASK"}
        isFsk == mod \in {"2FSK", "FSK"}
        base == IF isAsk THEN MOD_ASK_OOK ELSE MOD_2FSK
        mdm == IF r.manchester THEN BitOr(base, MANCHESTER) ELSE base
        s1 == Then({s}, "setFreq", r.freq, 0)
        s2 == {IF x.err = NoErr /\ ~(isAsk \/ isFsk) THEN Raise(x, ErrModulation) ELSE x :
                 x \in s1}
        tx_power_mode == IF r.max_power THEN "max" ELSE r.tx_power_mode
        s3 == {IF x.err # NoErr THEN x
               ELSE _apply_power_settings(x, r.freq, mod, tx_power_mode,
                        r.tx_power_target_dbm, r.tx_power_band, r.frend0_pa_power,
                        r.frend0_lodiv_buf_current_tx, r.patable) : x \in s2}
        s4 == Then(s3, "setMdmModulation", mdm, 0)
        s5 == Then(s4, "setMdmDRate", r.drate, 0)
        s6 == Then(s5, "setMdmSyncMode", r.syncmode, 0)
        s7 == Then(s6, "setMdmNumPreamble", r.preamble, 0)
        s8 == {IF hasattr(x, "setMdmManchester")
               THEN Step(x, "setMdmManchester", IF r.manchester THEN 1 ELSE 0, 0)
               ELSE x : x \in s7}
        s9 == IF DeviationApplies(r, mod)
              THEN Then(s8, "setMdmDeviatn", r.deviation.v, 0)
              ELSE s8
        s10 == Then(s9, "makePktFLEN", Len(r.payload), 0)
        s11 == Then(s10, "RFxmit", Len(r.payload), r.repeat)
    IN  CHOOSE x \in s11 : TRUE

(* The try block of transmit; sN is the singleton of the state after statement N. *)
TransmitBody(s, r) ==
    LET mod == Upper(r.modulation)
        isAsk == mod \in {"ASK_OOK", "OOK", "ASK"}
        isFsk == mod \in {"2FSK", "FSK"}
        base == IF isAsk THEN MOD_ASK_OOK ELSE MOD_2FSK
        mdm == IF r.manchester THEN BitOr(base, MANCHESTER) ELSE base
        s1 == Then({s}, "setFreq", r.freq, 0)
        s2 == {IF x.err = NoErr /\ ~(isAsk \/ isFsk) THEN Raise(x, ErrModulation) ELSE x :
                 x \in s1}
        s3 == Then(s2, "setMdmModulation", mdm, 0)
        s4 == Then(s3, "setMdmDRate", r.drate, 0)
        s5 == Then(s4, "setMdmSyncMode", r.syncmode, 0)
        s6 == Then(s5, "setMdmNumPreamble", r.preamble, 0)
        s7 == {IF hasattr(x, "setMdmManchester")
               THEN Step(x, "setMdmManchester", IF r.manchester THEN 1 ELSE 0, 0)
               ELSE x : x \in s6}
        s8 == IF DeviationApplies(r, mod)
              THEN Then(s7, "setMdmDeviatn", r.deviation.v, 0)
              ELSE s7
        tx_power_mode == IF r.max_power THEN "max" ELSE r.tx_power_mode
        s9 == {IF x.err # NoErr THEN x
               ELSE _apply_power_settings(x, r.freq, mod, tx_power_mode,
                        r.tx_power_target_dbm, r.tx_power_band, r.frend0_pa_power,
                        r.frend0_lodiv_buf_current_tx, r.patable) : x \in s8}
        s10 == Then(s9, "makePktFLEN", Len(r.payload), 0)
        s11 == Then(s10, "RFxmit", Len(r.payload), r.repeat)
    IN  CHOOSE x \in s11 : TRUE

(* Mutant of transmit: the return to idle is made only after a clean body. *)
transmit_IdleOnSuccessOnly(s, r) ==
    CHOOSE x \in {IF body.err # NoErr THEN body
                  ELSE Raise(DeviceCall(body, "setModeIDLE", 0, 0), NoErr) :
                     body \in {TransmitBody(s, r)}} : TRUE

(* Mutant of transmit: an exception of setModeIDLE is not swallowed. *)
transmit_IdleErrorEscapes(s, r) ==
    CHOOSE x \in {LET idle == DeviceCall(Raise(body, NoErr), "setModeIDLE", 0, 0)
                  IN  IF idle.err # NoErr THEN idle ELSE Raise(idle, body.err) :
                     body \in {TransmitBody(s, r)}} : TRUE

(* try: body; finally: setModeIDLE, whose own exception is swallowed. *)
transmit(s, r) ==
    CHOOSE x \in {Raise(DeviceCall(Raise(body, NoErr), "setModeIDLE", 0, 0), body.err) :
                     body \in {TransmitBody(s, r)}} : TRUE

-----------------------------------------------------------------------------
(* src/src/payload.py: chips and bytes. *)

(* What a call of a payload.py function has produced. *)
Pending == [t |-> "pending"]
Returned(v) == [t |-> "ok", v |-> v]
Raised(e) == [t |-> "err", e |-> e]

ErrNoFrequency == "ValueError: No Frequency found"
ErrNoRawData == "ValueError: No RAW_Data found"
ErrNotAnInt == "ValueError: invalid literal for int()"
ErrIntOfNone == "TypeError: int() argument must be a string or a number"
ErrListIndex == "IndexError: list index out of range"
ErrNoFile == "OSError: cannot open the file"
ErrNotAnObject == "ValueError: .rfcat.json must contain a JSON object"
ErrMissingFrequency == "ValueError: Missing frequency"
ErrMissingPayload == "ValueError: Missing payload"
ErrBase64 == "binascii.Error: Incorrect padding"
ErrUnsupported == "ValueError: Unsupported file type for replay"
ErrJson == "json.JSONDecodeError: the file is not JSON"

(* round(n / d) of Python 3 for an exact quotient: to nearest, ties to even. *)
PyRound(n, d) ==
    LET q == n \div d
        r == n % d
    IN  IF 2 * r < d THEN q
        ELSE IF 2 * r > d THEN q + 1
        ELSE IF q % 2 = 0 THEN q ELSE q + 1

Abs(v) == IF v < 0 THEN 0 - v ELSE v

Repeat(level, n) == [i \in 1..n |-> level]

(* Mutant of ChipCount: a run shorter than half a chip is dropped. *)
ChipCount_NoMinimum(v, drate, max_gap_us) ==
    LET dur_us == IF Abs(v) > max_gap_us THEN max_gap_us ELSE Abs(v)
        chips == PyRound(dur_us * drate, 1000000)
    IN  IF chips < 0 THEN 0 ELSE chips

(* The body of the loop of _durations_to_bits: the length of one run. *)
ChipCount(v, drate, max_gap_us) ==
    LET dur_us == IF Abs(v) > max_gap_us THEN max_gap_us ELSE Abs(v)
        chips == PyRound(dur_us * drate, 1000000)
    IN  IF chips < 1 THEN 1 ELSE chips

ChipLevel(v, invert_level) ==
    LET level == IF v > 0 THEN 1 ELSE 0
    IN  IF invert_level THEN 1 - level ELSE level

RECURSIVE _durations_to_bits(_, _, _, _)
_durations_to_bits(durs, drate, invert_level, max_gap_us) ==
    IF durs = <<>> THEN <<>>
    ELSE Repeat(ChipLevel(Head(durs), invert_level),
                ChipCount(Head(durs), drate, max_gap_us))
           \o _durations_to_bits(Tail(durs), drate, invert_level, max_gap_us)

Reversed(b) == [i \in 1..Len(b) |-> b[Len(b) + 1 - i]]

(* val = 0; for bit in b: val = (val << 1) | bit *)
RECURSIVE ComposeByte(_, _)
ComposeByte(b, val) ==
    IF b = <<>> THEN val
    ELSE ComposeByte(Tail(b), BitOr(ShiftLeft(val, 1), Head(b)))

(* Mutant of PadBits: the padding goes in front of the chips. *)
PadBits_InFront(bits) ==
    LET rem == Len(bits) % 8
    IN  IF rem # 0 THEN Repeat(0, 8 - rem) \o bits ELSE bits

PadBits(bits) ==
    LET rem == Len(bits) % 8
    IN  IF rem # 0 THEN bits \o Repeat(0, 8 - rem) ELSE bits

_pack_bits(bits, msb_first) ==
    LET padded == PadBits(bits)
        group(k) == SubSeq(padded, 8 * (k - 1) + 1, 8 * k)
    IN  [k \in 1..(Len(padded) \div 8) |->
            ComposeByte(IF msb_first THEN group(k) ELSE Reversed(group(k)), 0)]

(* A line of a .sub file: "Frequency: <text>", "RAW_Data: <text>", other.  *)
(* v is int(<text>) or Other when the text is not an integer; nums are the  *)
(* integers the pattern -?\d+ finds.                                        *)
FreqLine(v) == [t |-> "freq", v |-> v]
RawLine(nums) == [t |-> "raw", nums |-> nums]
OtherLine == [t |-> "other"]

RECURSIVE ReadLines(_, _)
ReadLines(lines, acc) ==
    IF acc.err # NoErr \/ lines = <<>> THEN acc
    ELSE LET line == Head(lines)
             next ==
               CASE line.t = "freq" ->
                      IF line.v.t = "int" THEN [acc EXCEPT !.freq = line.v]
                      ELSE [acc EXCEPT !.err = ErrNotAnInt]
                 [] line.t = "raw" ->
                      IF line.nums # <<>>
                      THEN [acc EXCEPT !.raw_lines = Append(@, line.nums)]
                      ELSE acc
                 [] OTHER -> acc
         IN  ReadLines(Tail(lines), next)

(* Mutant of _read_flipper_sub: the captures are looked for before the frequency. *)
_read_flipper_sub_CapturesFirst(f) ==
    IF ~f.exists THEN [err |-> ErrNoFile, freq |-> None, raw_lines |-> <<>>]
    ELSE LET r == ReadLines(f.lines, [err |-> NoErr, freq |-> None, raw_lines |-> <<>>])
         IN  IF r.err # NoErr THEN r
             ELSE IF r.raw_lines = <<>> THEN [r EXCEPT !.err = ErrNoRawData]
             ELSE IF r.freq = None THEN [r EXCEPT !.err = ErrNoFrequency]
             ELSE r

(* Returns [err, freq, raw_lines]. *)
_read_flipper_sub(f) ==
    IF ~f.exists THEN [err |-> ErrNoFile, freq |-> None, raw_lines |-> <<>>]
    ELSE LET r == ReadLines(f.lines, [err |-> NoErr, freq |-> None, raw_lines |-> <<>>])
         IN  IF r.err # NoErr THEN r
             ELSE IF r.freq = None THEN [r EXCEPT !.err = ErrNoFrequency]
             ELSE IF r.raw_lines = <<>> THEN [r EXCEPT !.err = ErrNoRawData]
             ELSE r

(* list[i] of Python: a negative index counts from the end. *)
GetItem(list, i) ==
    IF 0 <= i /\ i < Len(list) THEN Returned(list[i + 1])
    ELSE IF 0 - Len(list) <= i /\ i < 0 THEN Returned(list[Len(list) + i + 1])
    ELSE Raised(ErrListIndex)

(* Returns Returned([freq, payload, opts]) or Raised(e). *)
parse_flipper_sub(f, raw_index, drate, invert_level, msb_first, max_gap_us) ==
    LET r == _read_flipper_sub(f)
        index == IF raw_index >= Len(r.raw_lines) THEN 0 ELSE raw_index
        durs == GetItem(r.raw_lines, index)
    IN  IF r.err # NoErr THEN Raised(r.err)
        ELSE IF durs.t = "err" THEN durs
        ELSE Returned([freq |-> r.freq.v,
                       payload |-> _pack_bits(_durations_to_bits(durs.v, drate,
                                                  invert_level, max_gap_us),
                                              msb_first),
                       opts |-> [modulation |-> "ASK_OOK", drate |-> drate]])

-----------------------------------------------------------------------------
(* src/src/payload.py: the .rfcat.json descriptor. *)

(* A key the JSON object does not have (a key holding null is None). *)
Absent == [t |-> "absent"]

(* A string given character by character. *)
CharsV(chars) == [t |-> "str", chars |-> chars]

DescriptorKeys ==
    {"frequency", "freq", "freq_hz", "modulation", "manchester", "drate", "deviation",
     "syncmode", "preamble", "repeat", "max_power", "payload", "payload_hex",
     "payload_b64", "raw_durations", "raw_durations_us", "invert_level", "msb_first",
     "max_gap_us", "tx_power_mode", "tx_power_target_dbm", "tx_power_band",
     "frend0_pa_power", "frend0_lodiv_buf_current_tx", "patable"}

(* data.get(key) and data.get(key, default) *)
Get(data, key) == IF data[key] = Absent THEN None ELSE data[key]

GetOr(data, key, default) == IF data[key] = Absent THEN default ELSE data[key]

(* int(s) of one decimal literal. *)
DecLiteral(lit) ==
    CASE lit = "0" -> Returned(0)
      [] lit = "1" -> Returned(1)
      [] lit = " 3 " -> Returned(3)
      [] lit = "-5" -> Returned(-5)
      [] lit = "3333" -> Returned(3333)
      [] lit = "433920000" -> Returned(433920000)
      [] OTHER -> Raised(ErrNotAnInt)

(* int(v) *)
PyInt(v) ==
    CASE v.t = "int" -> Returned(v.v)
      [] v.t = "bool" -> Returned(IF v.v THEN 1 ELSE 0)
      [] v.t = "str" /\ "parts" \in DOMAIN v /\ Len(v.parts) = 1 -> DecLiteral(v.parts[1])
      [] v.t = "str" -> Raised(ErrNotAnInt)
      [] OTHER -> Raised(ErrIntOfNone)

(* bool(v) *)
PyBool(v) ==
    CASE v.t = "none" -> FALSE
      [] v.t = "bool" -> v.v
      [] v.t = "int" -> v.v # 0
      [] v.t = "str" -> IF "chars" \in DOMAIN v THEN v.chars # <<>> ELSE v.parts # <<"">>
      [] v.t = "list" -> v.items # <<>>
      [] OTHER -> TRUE

(* str(v).upper() *)
PyStrUpper(v) ==
    CASE v.t = "str" /\ "parts" \in DOMAIN v /\ Len(v.parts) = 1 -> Upper(v.parts[1])
      [] v.t = "none" -> "NONE"
      [] OTHER -> "OTHER"

HexDigits == <<"0", "1", "2", "3", "4", "5", "6", "7", "8", "9", "a", "b", "c", "d", "e", "f">>

LowerChar(c) ==
    CASE c = "A" -> "a" [] c = "B" -> "b" [] c = "C" -> "c" [] c = "D" -> "d"
      [] c = "E" -> "e" [] c = "F" -> "f" [] c = "X" -> "x" [] OTHER -> c

HexValue(c) == CHOOSE i \in 0..15 : HexDigits[i + 1] = c

IsHexDigit(c) == \E i \in 1..16 : HexDigits[i] = c

RECURSIVE StripLeft(_)
StripLeft(cs) == IF cs # <<>> /\ Head(cs) = " " THEN StripLeft(Tail(cs)) ELSE cs

Strip(cs) == Reversed(StripLeft(Reversed(StripLeft(cs))))

_hex_to_bytes(cs) ==
    LET low == [i \in DOMAIN Strip(cs) |-> LowerChar(Strip(cs)[i])]
        body == IF Len(low) >= 2 /\ low[1] = "0" /\ low[2] = "x"
                THEN SubSeq(low, 3, Len(low)) ELSE low
        digits == SelectSeq(body, IsHexDigit)
        even == IF Len(digits) % 2 = 1 THEN <<"0">> \o digits ELSE digits
    IN  [k \in 1..(Len(even) \div 2) |->
            16 * HexValue(even[2 * k - 1]) + HexValue(even[2 * k])]

(* base64.b64decode of one literal. *)
B64Decode(lit) ==
    CASE lit = "" -> Returned(<<>>)
      [] lit = "AQ==" -> Returned(<<1>>)
      [] lit = "qlU=" -> Returned(<<170, 85>>)
      [] OTHER -> Raised(ErrBase64)

(* bytes(int(x) & 0xFF for x in items) *)
RECURSIVE BytesOfList(_)
BytesOfList(items) ==
    IF items = <<>> THEN Returned(<<>>)
    ELSE LET h == PyInt(Head(items))
             t == BytesOfList(Tail(items))
         IN  IF h.t = "err" THEN h
             ELSE IF t.t = "err" THEN t
             ELSE Returned(<<Byte(h.v)>> \o t.v)

(* A bytes object, told apart from None. *)
BytesV(b) == [t |-> "bytes", v |-> b]

Boxed(r) == IF r.t = "err" THEN r ELSE Returned(BytesV(r.v))

(* The first exception among results evaluated in this order, or NoErr. *)
RECURSIVE FirstError(_)
FirstError(rs) ==
    IF rs = <<>> THEN NoErr
    ELSE IF Head(rs).t = "err" THEN Head(rs).e
    ELSE FirstError(Tail(rs))

(* Mutant of ExplicitPayload: payload_hex is looked at before payload. *)
ExplicitPayload_HexFirst(data) ==
    IF Get(data, "payload_hex").t = "str"
    THEN Returned(BytesV(_hex_to_bytes(data.payload_hex.chars)))
    ELSE IF Get(data, "payload").t = "list" THEN Boxed(BytesOfList(data.payload.items))
    ELSE IF Get(data, "payload_b64").t = "str"
    THEN Boxed(B64Decode(data.payload_b64.parts[1]))
    ELSE Returned(None)

(* The explicit payload of the descriptor: None when it gives none. *)
ExplicitPayload(data) ==
    IF Get(data, "payload").t = "list" THEN Boxed(BytesOfList(data.payload.items))
    ELSE IF Get(data, "payload_hex").t = "str"
    THEN Returned(BytesV(_hex_to_bytes(data.payload_hex.chars)))
    ELSE IF Get(data, "payload_b64").t = "str"
    THEN Boxed(B64Decode(data.payload_b64.parts[1]))
    ELSE Returned(None)

(* The payload sampled from raw_durations / raw_durations_us, or None. *)
RawPayload(data, drate) ==
    LET raw == IF Get(data, "raw_durations") = None THEN Get(data, "raw_durations_us")
               ELSE Get(data, "raw_durations")
        gap == PyInt(GetOr(data, "max_gap_us", IntV(30000)))
    IN  IF raw.t = "list" /\ raw.items # <<>>
        THEN IF gap.t = "err" THEN gap
             ELSE Returned(BytesV(_pack_bits(
                      _durations_to_bits([i \in DOMAIN raw.items |-> raw.items[i].v],
                          drate, PyBool(GetOr(data, "invert_level", BoolV(FALSE))), gap.v),
                      PyBool(GetOr(data, "msb_first", BoolV(TRUE))))))
        ELSE Returned(None)

(* Returns Returned(tx_request) or Raised(e). *)
parse_rfcat_json(f) ==
    IF ~f.exists THEN Raised(ErrNoFile)
    ELSE IF f.json = "invalid" THEN Raised(ErrJson)
    ELSE IF f.json # "object" THEN Raised(ErrNotAnObject)
    ELSE
    LET data == f.data
        freq0 == IF Get(data, "frequency") # None THEN Get(data, "frequency")
                 ELSE IF Get(data, "freq") # None THEN Get(data, "freq")
                 ELSE Get(data, "freq_hz")
        freq == PyInt(freq0)
        drate == PyInt(GetOr(data, "drate", IntV(3333)))
        deviation == IF Get(data, "deviation") = None THEN Returned(None)
                     ELSE PyInt(Get(data, "deviation"))
        syncmode == PyInt(GetOr(data, "syncmode", IntV(0)))
        preamble == PyInt(GetOr(data, "preamble", IntV(0)))
        repeat == PyInt(GetOr(data, "repeat", IntV(20)))
        modem == FirstError(<<freq, drate, deviation, syncmode, preamble, repeat>>)
        explicit == ExplicitPayload(data)
        sampled == RawPayload(data, drate.v)
    IN  IF freq0 = None THEN Raised(ErrMissingFrequency)
        ELSE IF modem # NoErr THEN Raised(modem)
        ELSE IF explicit.t = "err" THEN explicit
        ELSE IF explicit.v = None /\ sampled.t = "err" THEN sampled
        ELSE IF explicit.v = None /\ sampled.v = None THEN Raised(ErrMissingPayload)
        ELSE Returned(
               [freq |-> freq.v,
                payload |-> IF explicit.v = None THEN sampled.v.v ELSE explicit.v.v,
                repeat |-> repeat.v,
                drate |-> drate.v,
                modulation |-> IF explicit.v = None THEN "ASK_OOK"
                               ELSE PyStrUpper(GetOr(data, "modulation", StrV(<<"ASK_OOK">>))),
                manchester |-> PyBool(GetOr(data, "manchester", BoolV(FALSE))),
                deviation |-> IF deviation.v = None THEN None ELSE IntV(deviation.v),
                syncmode |-> syncmode.v,
                preamble |-> preamble.v,
                max_power |-> PyBool(GetOr(data, "max_power", BoolV(TRUE)))])

(* The defaults of get_tx_request. *)
default_repeat == 20
default_drate == 3333

(* Mutant of get_tx_request: a capture's request does not ask for max power. *)
get_tx_request_CaptureKeepsMode(f) ==
    IF f.kind = "sub"
    THEN LET r == parse_flipper_sub(f, 0, default_drate, FALSE, TRUE, 30000)
         IN  IF r.t = "err" THEN r
             ELSE Returned([freq |-> r.v.freq,
                            payload |-> r.v.payload,
                            repeat |-> default_repeat,
                            drate |-> r.v.opts.drate,
                            modulation |-> r.v.opts.modulation,
                            manchester |-> FALSE,
                            deviation |-> None,
                            syncmode |-> 0,
                            preamble |-> 0,
                            max_power |-> FALSE])
    ELSE IF f.kind = "rfcat" THEN parse_rfcat_json(f)
    ELSE Raised(ErrUnsupported)

get_tx_request(f) ==
    IF f.kind = "sub"
    THEN LET r == parse_flipper_sub(f, 0, default_drate, FALSE, TRUE, 30000)
         IN  IF r.t = "err" THEN r
             ELSE Returned([freq |-> r.v.freq,
                            payload |-> r.v.payload,
                            repeat |-> default_repeat,
                            drate |-> r.v.opts.drate,
                            modulation |-> r.v.opts.modulation,
                            manchester |-> FALSE,
                            deviation |-> None,
                            syncmode |-> 0,
                            preamble |-> 0,
                            max_power |-> TRUE])
    ELSE IF f.kind = "rfcat" THEN parse_rfcat_json(f)
    ELSE Raised(ErrUnsupported)

-----------------------------------------------------------------------------
(* src/src/main.py: the MQTT callback. *)

(* cfg["rf"]: a key is a value or Absent. *)
RfConfig(mode) ==
    [tx_power_mode |-> mode, tx_power_target_dbm |-> Absent, tx_power_band |-> Absent,
     frend0_pa_power |-> None, frend0_lodiv_buf_current_tx |-> None, patable |-> None]

(* out.setdefault(key, rf_cfg.get(key, default)) *)
SetDefault(tx, rf, key, default) ==
    IF key \in DOMAIN tx THEN tx[key] ELSE GetOr(rf, key, default)

(* The mode as transmit takes it: "" stands for None and "". *)
ModeText(v) == IF v.t = "str" THEN v.parts[1] ELSE ""

PowerKeys ==
    {"tx_power_mode", "tx_power_target_dbm", "tx_power_band", "frend0_pa_power",
     "frend0_lodiv_buf_current_tx", "patable"}

_apply_rf_defaults(tx, rf) ==
    [f \in DOMAIN tx \cup PowerKeys |->
        CASE f = "tx_power_mode" ->
                IF f \in DOMAIN tx THEN tx[f] ELSE ModeText(GetOr(rf, f, StrV(<<"smart">>)))
          [] f = "tx_power_target_dbm" -> SetDefault(tx, rf, f, IntV(0))
          [] f = "tx_power_band" -> SetDefault(tx, rf, f, StrV(<<"auto">>))
          [] f \in {"frend0_pa_power", "frend0_lodiv_buf_current_tx", "patable"} ->
                SetDefault(tx, rf, f, None)
          [] OTHER -> tx[f]]

(* payload_text.upper() after strip(), on the words a button sends. *)
StripUpper(w) ==
    CASE w = "press" -> "PRESS"
      [] w = " on " -> "ON"
      [] w = "true" -> "TRUE"
      [] w = "off" -> "OFF"
      [] OTHER -> w

(* msg.payload decoded and stripped: None when decode raises. *)
IsPress(text) ==
    \/ text.t # "str"
    \/ text.parts = <<"">>
    \/ StripUpper(text.parts[1]) \in {"PRESS", "1", "ON", "TRUE"}

(* What one run of the callback did: what it called and printed (trace),   *)
(* the driver's state, what get_tx_request gave, the request handed to     *)
(* transmit, and the exception that leaves the callback.                   *)
Entered(d, r) ==
    [trace |-> <<>>, s |-> Start(d), tx |-> Pending, merged |-> r, escaped |-> NoErr]

Say(o, m) == [o EXCEPT !.trace = Append(@, m)]

(* Mutant of AfterTransmit: the exception of transmit is raised again. *)
AfterTransmit_Reraises(o, s1) ==
    IF s1.err = NoErr THEN [Say(o, "print: Transmission complete") EXCEPT !.s = s1]
    ELSE [Say(o, "print: ERROR during transmission") EXCEPT !.s = s1, !.escaped = s1.err]

(* The end of the try block around transmit and its except clause. *)
AfterTransmit(o, s1) ==
    IF s1.err = NoErr THEN [Say(o, "print: Transmission complete") EXCEPT !.s = s1]
    ELSE [Say(o, "print: ERROR during transmission") EXCEPT !.s = Raise(s1, NoErr)]

(* _execute_python_tx_script with scripts disabled; an enabled script is   *)
(* user code and is not followed.                                          *)
_execute_python_tx_script(o, st) ==
    IF ~st.allow_py THEN Say(o, "print: ERROR: Python scripts are disabled")
    ELSE IF ~st.radio THEN Say(o, "print: ERROR: RF device not initialized")
    ELSE Say(o, "run script")

(* The callback from the parse on. *)
Replay(o, st, f) ==
    LET tx == get_tx_request(f)
        o1 == [Say(o, "call: get_tx_request") EXCEPT !.tx = tx]
    IN  IF tx.t = "err" THEN Say(o1, "print: ERROR parsing")
        ELSE IF ~st.radio THEN Say(o1, "print: ERROR: RF device not initialized")
        ELSE CHOOSE x \in
               {AfterTransmit([Say(Say(o1, "print: Replaying"), "call: radio.transmit")
                                 EXCEPT !.merged = merged],
                              transmit(o1.s, merged)) :
                  merged \in {_apply_rf_defaults(tx.v, st.rf)}} : TRUE

on_message(st, d, r, f, m) ==
    LET o == Entered(d, r)
    IN  IF ~m.mapped THEN o
        ELSE IF ~IsPress(m.text) THEN Say(o, "print: Ignoring payload")
        ELSE IF f.kind = "py"
        THEN _execute_python_tx_script(Say(Say(o, "print: Trigger"), "print: Running"), st)
        ELSE Replay(Say(o, "print: Trigger"), st, f)

-----------------------------------------------------------------------------
(* Operations. *)

Outcome(s) == IF s.err = NoErr THEN "ok" ELSE s.err

Finish(s) ==
    /\ dev' = s.dev
    /\ calls' = s.calls
    /\ warns' = s.warns
    /\ result' = Outcome(s)
    /\ UNCHANGED <<dev0, req, file, call, ret, msg, app, trace, disk, broker, run>>

(* radio._apply_power_settings(...) called on the request's power fields. *)
ApplyPowerSettings ==
    /\ result = "pending"
    /\ Finish(_apply_power_settings(Start(dev), req.freq, req.modulation,
                req.tx_power_mode, req.tx_power_target_dbm, req.tx_power_band,
                req.frend0_pa_power, req.frend0_lodiv_buf_current_tx, req.patable))

(* radio.transmit called with the request as its keyword arguments. *)
Transmit ==
    /\ result = "pending"
    /\ \E s \in {transmit(Start(dev), req)} : Finish(s)

(* A call of a payload.py function returns or raises. *)
Return(v) ==
    /\ ret = Pending
    /\ ret' = v
    /\ UNCHANGED <<dev, dev0, req, calls, warns, result, file, call, msg, app, trace,
                   disk, broker, run>>

PackBits ==
    /\ call.fn = "_pack_bits"
    /\ Return(Returned(_pack_bits(call.bits, call.msb_first)))

DurationsToBits ==
    /\ call.fn = "_durations_to_bits"
    /\ Return(Returned(_durations_to_bits(call.durs, call.drate, call.invert_level,
                                          call.max_gap_us)))

ParseFlipperSub ==
    /\ call.fn = "parse_flipper_sub"
    /\ Return(parse_flipper_sub(file, call.raw_index, call.drate, call.invert_level,
                                call.msb_first, call.max_gap_us))

GetTxRequest ==
    /\ call.fn = "get_tx_request"
    /\ Return(get_tx_request(file))

SelectBand ==
    /\ call.fn = "_select_band"
    /\ Return(Returned(_select_band(call.freq_hz, call.override)))

(* on_message(client, userdata, msg) for the file the topic is mapped to. *)
OnMessage ==
    /\ result = "pending"
    /\ \E o \in {on_message(app, dev, req, file, msg)} :
          /\ dev' = o.s.dev
          /\ calls' = o.s.calls
          /\ warns' = o.s.warns
          /\ ret' = o.tx
          /\ req' = o.merged
          /\ trace' = o.trace
          /\ result' = IF o.escaped = NoErr THEN "ok" ELSE o.escaped
    /\ UNCHANGED <<dev0, file, call, msg, app, disk, broker, run>>

-----------------------------------------------------------------------------
(* src/src/discovery.py: Home Assistant discovery and its cache. *)

(* A file of the scan directory: the folder it is in ("" for the directory  *)
(* itself) and its name.                                                    *)
ScanFile(folder, name) == [folder |-> folder, name |-> name]

(* The extension filename.lower() ends with, "" for none of the known ones. *)
Extension(name) ==
    CASE name \in {"gate.sub", "My Gate.sub", "Fan.SUB"} -> ".sub"
      [] name = "gate.rfcat.json" -> ".rfcat.json"
      [] name = "lamp.py" -> ".py"
      [] OTHER -> ""

SUPPORTED_EXTENSIONS == {".sub", ".rfcat.json", ".py"}

_strip_known_suffix(name) ==
    CASE name = "gate.sub" -> "gate"
      [] name = "gate.rfcat.json" -> "gate"
      [] name = "My Gate.sub" -> "My Gate"
      [] name = "Fan.SUB" -> "Fan"
      [] name = "lamp.py" -> "lamp"
      [] name = "notes.txt" -> "notes"

(* re.sub(r"[^a-zA-Z0-9_-]", "_", text).lower() *)
sanitize(text) ==
    CASE text = "My Gate" -> "my_gate"
      [] text = "Fan" -> "fan"
      [] text = "Living_Room" -> "living_room"
      [] OTHER -> text

(* The discovery config topics: the hub's and a button's. *)
HubTopic == [kind |-> "binary_sensor", device |-> "", id |-> "status"]

ButtonTopic(f) ==
    [kind |-> "button",
     device |-> IF f.folder = "" THEN "main" ELSE sanitize(f.folder),
     id |-> sanitize(_strip_known_suffix(f.name))]

(* str(files_cfg.get("discovery_cleanup", "stale")).strip().lower(), and    *)
(* "stale" for anything that is not a mode.                                 *)
CleanupMode(text) ==
    LET m == CASE text = " WIPE " -> "wipe" [] OTHER -> text
    IN  IF m \in {"stale", "wipe"} THEN m ELSE "stale"

(* client.publish(t, payload, retain=True): an empty payload clears t. *)
Publish(b, topics) ==
    [b EXCEPT !.retained = @ \cup topics, !.published = @ \cup topics]

_purge_topics(b, topics) ==
    [b EXCEPT !.retained = @ \ topics, !.purged = @ \cup topics]

(* Mutant of StaleTopics: every cached topic counts as stale. *)
StaleTopics_AllPrevious(previous_topics, current_topics) == previous_topics

(* stale = previous_topics - current_topics *)
StaleTopics(previous_topics, current_topics) == previous_topics \ current_topics

(* One run on the disk d and the broker b; returns [disk, broker]. *)
run_discovery(d, b, cfg) ==
    LET supported_exts == IF cfg.allow_py THEN SUPPORTED_EXTENSIONS
                          ELSE SUPPORTED_EXTENSIONS \ {".py"}
        cleanup_mode == CleanupMode(cfg.discovery_cleanup)
        loaded == d.cache
        wipes == cleanup_mode = "wipe" /\ loaded # {}
        b1 == IF wipes THEN _purge_topics(b, loaded) ELSE b
        previous_topics == IF wipes THEN {} ELSE loaded
        b2 == Publish(b1, {HubTopic})
        supported_files == {f \in d.files : Extension(f.name) \in supported_exts}
        current_topics == {HubTopic} \cup {ButtonTopic(f) : f \in supported_files}
        b3 == Publish(b2, current_topics)
        stale == StaleTopics(previous_topics, current_topics)
        b4 == IF cleanup_mode = "stale" /\ stale # {} THEN _purge_topics(b3, stale) ELSE b3
    IN  IF ~d.present THEN [disk |-> d, broker |-> b2]
        ELSE [disk |-> [d EXCEPT !.cache = current_topics], broker |-> b4]

MaxRuns == 3

(* The files that may be in the scan directory. *)
ScanFiles ==
    {ScanFile("", "gate.sub"), ScanFile("", "gate.rfcat.json"), ScanFile("", "My Gate.sub"),
     ScanFile("", "lamp.py"), ScanFile("", "notes.txt"), ScanFile("Living_Room", "Fan.SUB")}

DiscoveryConfigs ==
    {[allow_py |-> allow_py, discovery_cleanup |-> mode] :
        allow_py \in BOOLEAN, mode \in {"stale", "wipe", " WIPE ", "bogus"}}

(* run_discovery(client, config) at start-up, on the disk as it is. *)
RunDiscovery ==
    /\ run.n < MaxRuns
    /\ run.phase = "idle"
    /\ \E cfg \in DiscoveryConfigs :
         \E o \in {run_discovery(disk, [broker EXCEPT !.published = {}, !.purged = {}], cfg)} :
            /\ disk' = o.disk
            /\ broker' = o.broker
            /\ run' = [n |-> run.n + 1, phase |-> "ran", cfg |-> cfg, previous |-> disk.cache]
    /\ UNCHANGED <<dev, dev0, req, calls, warns, result, file, call, ret, msg, app, trace>>

(* Between two runs files are added to and removed from the scan directory, *)
(* or the directory goes away or comes back.                                *)
ChangeFiles ==
    /\ run.phase = "ran"
    /\ \E present \in BOOLEAN, files \in SUBSET ScanFiles :
          disk' = [disk EXCEPT !.present = present,
                               !.files = IF present THEN files ELSE {}]
    /\ run' = [n |-> run.n, phase |-> "idle"]
    /\ UNCHANGED <<dev, dev0, req, calls, warns, result, file, call, ret, msg, app, trace,
                   broker>>

-----------------------------------------------------------------------------
(* Inputs: devices and requests. *)

MaxPaField == 8
MaxLodivField == 4
MaxPatableLen == 9
MaxPokeLeft == 2
MaxTargetDbm == 31

(* The methods every rflib build has, and the ones a build may lack. *)
NominalCaps == {"peek", "poke", "setPower", "setMaxPower", "setMdmManchester"}

Device(r, caps, peekMode, pokeLeft, failAt, idleFails) ==
    [xdata |-> [a \in XdataAddrs |-> IF a = FREND0_ADDR THEN r ELSE 0],
     caps |-> caps,
     peekMode |-> peekMode,
     pokeLeft |-> pokeLeft,
     failAt |-> failAt,
     idleFails |-> idleFails]

(* A device that differs from a working one only in its register access. *)
RegDevice(r, peek, poke, powerCaps) ==
    Device(r,
           (({"setMaxPower", "setMdmManchester"} \cup powerCaps)
              \cup (IF peek = "absent" THEN {} ELSE {"peek"}))
              \cup (IF poke.has THEN {"poke"} ELSE {}),
           IF peek = "absent" THEN "ok" ELSE peek,
           poke.left,
           "none", FALSE)

PeekKinds == {"absent", "raises", "none", "empty", "ok"}

PokeKinds ==
    {[has |-> FALSE, left |-> -1]} \cup {[has |-> TRUE, left |-> n] : n \in -1..MaxPokeLeft}

PokeAlways == [has |-> TRUE, left |-> -1]

PowerCapKinds == SUBSET {"setPower", "setTxPower"}

ReadBacks == {200, 1}

(* The defaults of transmit()'s signature. *)
DefaultReq ==
    [freq |-> 433920000, payload |-> <<1>>, repeat |-> 20, drate |-> 3333,
     modulation |-> "ASK_OOK", manchester |-> FALSE, deviation |-> None,
     syncmode |-> 0, preamble |-> 0, max_power |-> FALSE,
     tx_power_mode |-> "max", tx_power_target_dbm |-> IntV(0),
     tx_power_band |-> StrV(<<"auto">>), frend0_pa_power |-> None,
     frend0_lodiv_buf_current_tx |-> None, patable |-> None]

PaFields == {None, StrV(<<"5">>)} \cup {IntV(n) : n \in -1..MaxPaField}

LodivFields == {None} \cup {IntV(n) : n \in -1..MaxLodivField}

PatableList(n) == ListV([i \in 1..n |-> IntV(16 * i + 2)])

PatableFields ==
    {None, IntV(96), StrV(<<"0xC0">>), StrV(<<"0x00", "0xC0">>), StrV(<<"0x60", "">>),
     ListV(<<IntV(1), Other>>)}
      \cup {PatableList(n) : n \in 1..MaxPatableLen}

ManualReq(mod, pa, lodiv, pt) ==
    [DefaultReq EXCEPT !.tx_power_mode = "manual", !.modulation = mod,
                       !.frend0_pa_power = pa,
                       !.frend0_lodiv_buf_current_tx = lodiv, !.patable = pt]

SmartReq(freq, mod, dbm, band, lodiv) ==
    [DefaultReq EXCEPT !.tx_power_mode = "smart", !.freq = freq, !.modulation = mod,
                       !.tx_power_target_dbm = dbm, !.tx_power_band = band,
                       !.frend0_lodiv_buf_current_tx = lodiv]

Freqs == {300000000, 380000000, 433920000, 868000000, 915000000}

BandFields == {None, StrV(<<" auto ">>), IntV(868), StrV(<<"0x393">>), IntV(7)}

DbmFields == {None, StrV(<<"-5">>)} \cup {IntV(n) : n \in (0 - MaxTargetDbm)..MaxTargetDbm}

ModeWords == {"max", " max ", "full", "default", "AUTO", "keep", "", "SMART", "Manual",
              "bogus", " "}

(* No file, no call of payload.py, no message. *)
NoFile == [exists |-> FALSE, kind |-> "none"]
NoCall == [fn |-> "none"]
NoMsg == [mapped |-> FALSE, text |-> None]
NoApp == [radio |-> FALSE]

(* No scan directory, no broker, no run of discovery. *)
NoDisk == [present |-> FALSE, files |-> {}, cache |-> {}]
NoBroker == [retained |-> {}, published |-> {}, purged |-> {}]
NoRun == [n |-> 0, phase |-> "none"]
NoDiscovery == disk = NoDisk /\ broker = NoBroker /\ run = NoRun

InitVars(d, r) ==
    /\ dev = d
    /\ dev0 = d
    /\ req = r
    /\ calls = <<>>
    /\ warns = <<>>
    /\ result = "pending"
    /\ file = NoFile
    /\ call = NoCall
    /\ ret = Pending
    /\ msg = NoMsg
    /\ app = NoApp
    /\ trace = <<>>
    /\ NoDiscovery

(* Manual mode on a working device: every read-back byte, every field value. *)
InitFrend0 ==
    \E r \in 0..255, pa \in PaFields, lodiv \in LodivFields :
        InitVars(RegDevice(r, "ok", PokeAlways, {"setPower"}),
                 ManualReq("2FSK", pa, lodiv, None))

InitManual ==
    \E r \in ReadBacks, peek \in PeekKinds, poke \in PokeKinds,
       mod \in {"ASK_OOK", "2FSK"}, pa \in PaFields,
       lodiv \in {None, IntV(3), IntV(4)}, pt \in PatableFields :
        InitVars(RegDevice(r, peek, poke, {"setPower"}), ManualReq(mod, pa, lodiv, pt))

InitSmartTable ==
    \E freq \in Freqs, mod \in {"ASK_OOK", "2FSK"}, dbm \in DbmFields, band \in BandFields :
        InitVars(RegDevice(200, "ok", PokeAlways, {"setPower"}),
                 SmartReq(freq, mod, dbm, band, None))

InitSmartDevice ==
    \E r \in ReadBacks, peek \in PeekKinds, poke \in PokeKinds, pc \in PowerCapKinds,
       mod \in {"ASK_OOK", "2FSK", "ask_pwm"}, dbm \in {IntV(0), IntV(3)},
       lodiv \in {None, IntV(3), IntV(4)} :
        InitVars(RegDevice(r, peek, poke, pc), SmartReq(433920000, mod, dbm, None, lodiv))

InitModes ==
    \E peek \in PeekKinds, poke \in PokeKinds, mode \in ModeWords :
        InitVars(RegDevice(200, peek, poke, {"setPower"}),
                 [DefaultReq EXCEPT !.tx_power_mode = mode])

InitPower == InitManual \/ InitSmartTable \/ InitSmartDevice \/ InitModes

SpecFrend0 == InitFrend0 /\ [][ApplyPowerSettings]_vars

SpecPower == InitPower /\ [][ApplyPowerSettings]_vars

-----------------------------------------------------------------------------
(* Radio.transmit on requests as main.py merges them. *)

FailPoints ==
    {"none", "setFreq", "setMdmModulation", "setMdmDRate", "setMdmSyncMode",
     "setMdmNumPreamble", "setMdmManchester", "setMdmDeviatn", "setMaxPower",
     "setPower", "makePktFLEN", "RFxmit"}

TxModulations == {"ASK_OOK", "ook", "2FSK", "GFSK", "MSK", "NOPE"}

(* The power fields of a request: mode, target dBm, pa_power, lodiv, patable. *)
TxPowerFields ==
    {[mode |-> m, dbm |-> IntV(0), pa |-> None, lodiv |-> None, pt |-> None] :
        m \in {"max", "default", "bogus", "", " "}}
      \cup {[mode |-> "manual", dbm |-> IntV(0), pa |-> pa, lodiv |-> lodiv, pt |-> pt] :
              pa \in {None, IntV(3), IntV(8)}, lodiv \in {None, IntV(4)},
              pt \in {None, IntV(96), PatableList(2), PatableList(MaxPatableLen)}}
      \cup {[mode |-> "smart", dbm |-> dbm, pa |-> None, lodiv |-> lodiv, pt |-> None] :
              dbm \in {IntV(0), IntV(3), IntV(10), IntV(11), IntV(-40)},
              lodiv \in {None, IntV(4)}}

TxReq(mod, deviation, manchester, max_power, p) ==
    [DefaultReq EXCEPT !.modulation = mod, !.deviation = deviation,
                       !.manchester = manchester, !.max_power = max_power,
                       !.tx_power_mode = p.mode, !.tx_power_target_dbm = p.dbm,
                       !.frend0_pa_power = p.pa,
                       !.frend0_lodiv_buf_current_tx = p.lodiv, !.patable = p.pt]

TxReqs ==
    {TxReq(mod, deviation, manchester, max_power, p) :
        mod \in TxModulations, deviation \in {None, IntV(5000)},
        manchester \in BOOLEAN, max_power \in BOOLEAN, p \in TxPowerFields}

(* Working devices on which one call, and possibly the return to idle, raises. *)
FailingDevices ==
    {Device(200, NominalCaps, "ok", -1, failAt, idleFails) :
        failAt \in FailPoints, idleFails \in BOOLEAN}

(* Devices that lack methods or register access, and never raise elsewhere. *)
LimitedDevices ==
    {[RegDevice(200, peek, poke, pc) EXCEPT !.caps = @ \ noManchester] :
        peek \in PeekKinds,
        poke \in {k \in PokeKinds : k.left < MaxPokeLeft},
        pc \in PowerCapKinds,
        noManchester \in {{}, {"setMdmManchester"}}}

(* The requests sent to a limited device: the fields its missing methods affect. *)
LimitedReqs ==
    {TxReq(mod, None, manchester, max_power, p) :
        mod \in {"ASK_OOK", "2FSK"}, manchester \in BOOLEAN, max_power \in BOOLEAN,
        p \in TxPowerFields}

InitFailing == \E d \in FailingDevices, r \in TxReqs : InitVars(d, r)

InitLimited == \E d \in LimitedDevices, r \in LimitedReqs : InitVars(d, r)

Init == InitFailing \/ InitLimited

Next == Transmit

Spec == Init /\ [][Next]_vars

-----------------------------------------------------------------------------
(* The functions of payload.py on bounded inputs. *)

MaxChips == 9
MaxDurs == 2
MaxCaptures == 2

InitCall(f, c) ==
    /\ dev = Device(200, NominalCaps, "ok", -1, "none", FALSE)
    /\ dev0 = dev
    /\ req = DefaultReq
    /\ calls = <<>>
    /\ warns = <<>>
    /\ result = "pending"
    /\ file = f
    /\ call = c
    /\ ret = Pending
    /\ msg = NoMsg
    /\ app = NoApp
    /\ trace = <<>>
    /\ NoDiscovery

SeqsUpTo(S, n) == UNION {[1..k -> S] : k \in 0..n}

InitPack ==
    \E bits \in SeqsUpTo({0, 1}, MaxChips), msb_first \in BOOLEAN :
        InitCall(NoFile, [fn |-> "_pack_bits", bits |-> bits, msb_first |-> msb_first])

SpecPack == InitPack /\ [][PackBits]_vars

(* Durations around the chip period and its halves at 1000 and 3333 chips/s. *)
DurValues ==
    {0, 1, -1, 150, 300, -499, 500, -1000, 1000, 1500, -2500, 2500, 3500, 40000, -40000}

EightAlternating == <<1000, -1000, 1000, -1000, 1000, -1000, 1000, -1000>>

Drates == {1000, 3333}

MaxGaps == {30000, 2000, 0}

InitChips ==
    \E durs \in SeqsUpTo(DurValues, MaxDurs) \cup {EightAlternating},
       drate \in Drates, invert_level \in BOOLEAN, max_gap_us \in MaxGaps :
        InitCall(NoFile, [fn |-> "_durations_to_bits", durs |-> durs, drate |-> drate,
                          invert_level |-> invert_level, max_gap_us |-> max_gap_us])

SpecChips == InitChips /\ [][DurationsToBits]_vars

SubFile(lines) == [exists |-> TRUE, kind |-> "sub", lines |-> lines]

FreqLines ==
    {<<>>, <<FreqLine(IntV(433920000))>>, <<FreqLine(IntV(0))>>, <<FreqLine(IntV(-315))>>,
     <<FreqLine(Other)>>, <<FreqLine(IntV(1)), OtherLine, FreqLine(IntV(868000000))>>}

RawLineValues == {RawLine(<<500, -500, 1500>>), RawLine(<<-1000>>), RawLine(<<>>)}

SubFiles ==
    {SubFile(f \o r) : f \in FreqLines, r \in SeqsUpTo(RawLineValues, MaxCaptures)}
      \cup {SubFile(<<RawLine(<<-1000>>), FreqLine(IntV(433920000)), RawLine(<<500, -500, 1500>>)>>),
            [exists |-> FALSE, kind |-> "sub", lines |-> <<>>]}

InitSub ==
    \E f \in SubFiles, raw_index \in (0 - (MaxCaptures + 1))..(MaxCaptures + 1),
       drate \in Drates, msb_first \in BOOLEAN :
        InitCall(f, [fn |-> "parse_flipper_sub", raw_index |-> raw_index, drate |-> drate,
                     invert_level |-> FALSE, msb_first |-> msb_first,
                     max_gap_us |-> 30000])

SpecSub == InitSub /\ [][ParseFlipperSub]_vars

(* _select_band around the band boundaries, on every kind of override. *)
BandFreqs ==
    {0, 300000000, 379999999, 380000000, 450000000, 599999999, 600000000, 870000000,
     899999999, 900000000, 920000000}

BandOverrides ==
    {None, Other, BoolV(TRUE), IntV(0), IntV(7), IntV(916)}
      \cup {IntV(b) : b \in Bands}
      \cup {StrV(<<w>>) : w \in {"", " ", "auto", " auto ", "AUTO", "315", "433", " 868",
                                 "0x393", "9", "bogus"}}
      \cup {StrV(<<"433", "868">>)}

InitBand ==
    \E freq_hz \in BandFreqs, override \in BandOverrides :
        InitCall(NoFile, [fn |-> "_select_band", freq_hz |-> freq_hz, override |-> override])

SpecBand == InitBand /\ [][SelectBand]_vars

-----------------------------------------------------------------------------
(* Discovery over several start-ups: a fresh broker and no cache file. *)

InitDiscovery ==
    \E present \in BOOLEAN, files \in SUBSET ScanFiles :
        /\ dev = Device(200, NominalCaps, "ok", -1, "none", FALSE)
        /\ dev0 = dev
        /\ req = DefaultReq
        /\ calls = <<>>
        /\ warns = <<>>
        /\ result = "pending"
        /\ file = NoFile
        /\ call = NoCall
        /\ ret = Pending
        /\ msg = NoMsg
        /\ app = NoApp
        /\ trace = <<>>
        /\ disk = [present |-> present, files |-> IF present THEN files ELSE {}, cache |-> {}]
        /\ broker = NoBroker
        /\ run = [n |-> 0, phase |-> "idle"]

SpecDiscovery == InitDiscovery /\ [][RunDiscovery \/ ChangeFiles]_vars

-----------------------------------------------------------------------------
(* get_tx_request on files, and triggers delivered to on_message. *)

EmptyData == [k \in DescriptorKeys |-> Absent]

Descriptor(data) == [exists |-> TRUE, kind |-> "rfcat", json |-> "object", data |-> data]

FreqValues ==
    {Absent, None, IntV(433920000), IntV(0), IntV(-5), StrV(<<"433920000">>),
     StrV(<<"433.92">>)}

PayloadFields ==
    {[payload |-> p, payload_hex |-> Absent, payload_b64 |-> Absent, raw_durations_us |-> Absent] :
        p \in {Absent, None, ListV(<<>>), ListV(<<IntV(1), IntV(511)>>),
               ListV(<<IntV(1), None>>), IntV(7)}}
      \cup
    {[payload |-> Absent, payload_hex |-> CharsV(h), payload_b64 |-> Absent, raw_durations_us |-> Absent] :
        h \in {<<>>, <<"0", "x">>, <<" ", "0", "X", "a", "B", "c", " ">>, <<"z", "z">>,
               <<"d", "e", ":", "a", "d">>}}
      \cup
    {[payload |-> Absent, payload_hex |-> Absent, payload_b64 |-> StrV(<<b>>), raw_durations_us |-> Absent] :
        b \in {"", "AQ==", "qlU=", "A"}}
      \cup
    {[payload |-> Absent, payload_hex |-> Absent, payload_b64 |-> Absent, raw_durations_us |-> r] :
        r \in {ListV(<<>>), ListV(<<IntV(500), IntV(-500)>>), IntV(500)}}

ParsedDescriptors ==
    {Descriptor([EmptyData EXCEPT ![key] = freq, !.drate = drate, !.repeat = repeat,
                                  !.payload = p.payload, !.payload_hex = p.payload_hex,
                                  !.payload_b64 = p.payload_b64,
                                  !.raw_durations_us = p.raw_durations_us]) :
        key \in {"frequency", "freq_hz"}, freq \in FreqValues,
        drate \in {Absent, None, IntV(0), IntV(1000)},
        repeat \in {Absent, IntV(0), IntV(-1), StrV(<<" 3 ">>)},
        p \in PayloadFields}

BrokenFiles ==
    {[exists |-> FALSE, kind |-> "rfcat", json |-> "object", data |-> EmptyData],
     [exists |-> TRUE, kind |-> "rfcat", json |-> "array", data |-> EmptyData],
     [exists |-> TRUE, kind |-> "rfcat", json |-> "invalid", data |-> EmptyData],
     [exists |-> TRUE, kind |-> "txt"]}

(* One value per payload source, each decoding to different bytes. *)
ListSample == ListV(<<IntV(1)>>)
HexSample == CharsV(<<"0", "2">>)
B64Sample == StrV(<<"qlU=">>)
RawSample == ListV(<<IntV(500), IntV(-500)>>)

(* Descriptors giving any subset of the payload sources and a modulation. *)
MixedDescriptors ==
    {Descriptor([EmptyData EXCEPT !.frequency = IntV(433920000), !.drate = IntV(1000),
                                  !.modulation = m, !.payload = p, !.payload_hex = h,
                                  !.payload_b64 = b, ![rawkey] = r]) :
        m \in {Absent, StrV(<<"2fsk">>), StrV(<<"GFSK">>), StrV(<<"ook">>)},
        p \in {Absent, ListSample}, h \in {Absent, HexSample}, b \in {Absent, B64Sample},
        r \in {Absent, RawSample}, rawkey \in {"raw_durations", "raw_durations_us"}}

InitParse ==
    \E f \in ParsedDescriptors \cup MixedDescriptors \cup BrokenFiles \cup SubFiles :
        InitCall(f, [fn |-> "get_tx_request"])

SpecParse == InitParse /\ [][GetTxRequest]_vars

(* A descriptor that parses, with power fields. *)
PowerDescriptor(mode, max_power) ==
    Descriptor([EmptyData EXCEPT !.frequency = IntV(433920000),
                                 !.payload = ListV(<<IntV(1), IntV(2)>>),
                                 !.max_power = max_power,
                                 !.tx_power_mode = mode,
                                 !.tx_power_target_dbm = IntV(10),
                                 !.frend0_pa_power = IntV(3),
                                 !.patable = IntV(96)])

DescriptorModes ==
    {Absent} \cup {StrV(<<m>>) : m \in {"max", "default", "auto", "manual", "smart", "bogus"}}

TriggerFiles ==
    {PowerDescriptor(mode, max_power) :
        mode \in DescriptorModes, max_power \in {Absent, BoolV(FALSE), BoolV(TRUE)}}
      \cup {Descriptor([EmptyData EXCEPT !.freq = IntV(868000000), !.modulation = m,
                                         !.payload_hex = CharsV(<<"a", "a">>)]) :
              m \in {Absent, StrV(<<"fsk">>), StrV(<<"gfsk">>)}}
      \cup {Descriptor([EmptyData EXCEPT !.payload = ListV(<<IntV(1)>>)]),
            Descriptor([EmptyData EXCEPT !.frequency = IntV(433920000)]),
            SubFile(<<FreqLine(IntV(433920000)), RawLine(<<500, -500, 1500>>)>>),
            SubFile(<<FreqLine(IntV(433920000))>>),
            [exists |-> TRUE, kind |-> "py"]}
      \cup BrokenFiles

TriggerDevices ==
    {Device(200, NominalCaps, "ok", -1, failAt, idleFails) :
        failAt \in {"none", "setFreq", "setMaxPower", "RFxmit"}, idleFails \in BOOLEAN}
      \cup {RegDevice(200, "absent", PokeAlways, {})}

Messages ==
    {[mapped |-> mapped, text |-> text] :
        mapped \in BOOLEAN,
        text \in {None, StrV(<<"">>), StrV(<<"PRESS">>), StrV(<<" on ">>), StrV(<<"off">>),
                  StrV(<<"toggle">>)}}

AppStates ==
    {[radio |-> radio, allow_py |-> FALSE, rf |-> RfConfig(mode)] :
        radio \in BOOLEAN,
        mode \in {Absent, StrV(<<"max">>), StrV(<<"default">>), StrV(<<"manual">>)}}

InitTrigger ==
    \E d \in TriggerDevices, f \in TriggerFiles, m \in Messages, st \in AppStates :
        /\ dev = d
        /\ dev0 = d
        /\ req = DefaultReq
        /\ calls = <<>>
        /\ warns = <<>>
        /\ result = "pending"
        /\ file = IF m.mapped THEN f ELSE NoFile
        /\ call = NoCall
        /\ ret = Pending
        /\ msg = m
        /\ app = st
        /\ trace = <<>>
        /\ NoDiscovery

SpecTrigger == InitTrigger /\ [][OnMessage]_vars

-----------------------------------------------------------------------------
(* What the properties below read off a state. *)

Done == result # "pending"

ReadBack == dev0.xdata[FREND0_ADDR]

Frend0 == dev.xdata[FREND0_ADDR]

PaField == req.frend0_pa_power

LodivField == req.frend0_lodiv_buf_current_tx

PaGiven == PaField.t = "int" /\ PaField.v \in 0..7

LodivGiven == LodivField.t = "int" /\ LodivField.v \in 0..3

Mode == req.tx_power_mode

(* The pokes that landed, in order, and the registers they changed. *)
Pokes == SelectSeq(calls, LAMBDA c : c.op = "poke" /\ c.ok)

Frend0Pokes == SelectSeq(Pokes, LAMBDA c : c.a = FREND0_ADDR)

PatableWrites ==
    {<<PA_TABLE0_ADDR - Pokes[i].a, Pokes[i].v>> :
        i \in {j \in DOMAIN Pokes : Pokes[j].a \in PatableAddrs}}

NoRegisterWritten == Pokes = <<>> /\ dev.xdata = dev0.xdata

Called(op) == \E i \in DOMAIN calls : calls[i].op = op

-----------------------------------------------------------------------------
(* FREND0 in manual mode (SpecFrend0). *)

(* C1: after a manual-mode update with read-back r, pa_power in 0..7 and    *)
(* lodiv in 0..3, FREND0 holds pa_power in bits [2:0], lodiv in bits [5:4]  *)
(* and r's bits 7, 6 and 3.                                                 *)
C1_Frend0BitfieldsOnly ==
    (Done /\ Mode = "manual" /\ PaGiven /\ LodivGiven) =>
        /\ result = "ok"
        /\ Frend0 % 8 = PaField.v
        /\ (Frend0 \div 16) % 4 = LodivField.v
        /\ Frend0 \div 64 = ReadBack \div 64
        /\ (Frend0 \div 8) % 2 = (ReadBack \div 8) % 2

C1_Witness ==
    /\ result = "ok" /\ Mode = "manual"
    /\ ReadBack = 79 /\ PaField = IntV(2) /\ LodivField = IntV(1)
    /\ Frend0 = 90

(* C2 as claimed: with lodiv absent and pa_power in 0..7 the value left in *)
(* FREND0 is (r AND 0xC8) OR pa_power, bits [5:4] cleared.                 *)
C2_LodivAbsentClearsBoth ==
    (result = "ok" /\ Mode = "manual" /\ PaGiven /\ LodivField = None) =>
        Frend0 = 64 * (ReadBack \div 64) + 8 * ((ReadBack \div 8) % 2) + PaField.v

(* C2 as amended: bits [2:0] are always replaced by pa_power; bits [5:4]  *)
(* are cleared and replaced by lodiv only when lodiv is present, so with  *)
(* lodiv absent the value is (r AND 0xF8) OR pa_power.                    *)
C2_LodivAbsentKeepsLodiv ==
    (Done /\ Mode = "manual" /\ PaGiven /\ (LodivGiven \/ LodivField = None)) =>
        /\ result = "ok"
        /\ LodivField = None => Frend0 = 8 * (ReadBack \div 8) + PaField.v
        /\ LodivGiven =>
              Frend0 = 64 * (ReadBack \div 64) + 16 * LodivField.v
                         + 8 * ((ReadBack \div 8) % 2) + PaField.v

C2_Witness ==
    /\ result = "ok" /\ Mode = "manual"
    /\ ReadBack = 55 /\ PaField = IntV(5) /\ LodivField = None
    /\ Frend0 = 53

(* C3 as claimed: read-back 0b11001000, pa_power 5, lodiv 3 write *)
(* 0b10111101 to FREND0.                                          *)
C3_Writes0xBD ==
    (Done /\ Mode = "manual" /\ ReadBack = 200 /\ PaField = IntV(5) /\ LodivField = IntV(3)) =>
        \E i \in DOMAIN Frend0Pokes : Frend0Pokes[i].v = 189

(* C3 as amended: read-back 0b11001000, pa_power 5, lodiv 3 write *)
(* 0b11111101 to FREND0, once (bit 6 of the read-back is kept).   *)
C3_Writes0xFD ==
    (Done /\ Mode = "manual" /\ ReadBack = 200 /\ PaField = IntV(5) /\ LodivField = IntV(3)) =>
        /\ Len(Frend0Pokes) = 1
        /\ Frend0Pokes[1].v = 253
        /\ Frend0 = 253

C3_Witness ==
    /\ ReadBack = 200 /\ PaField = IntV(5) /\ LodivField = IntV(3)
    /\ Len(Frend0Pokes) = 1
    /\ Frend0 = 253

-----------------------------------------------------------------------------
(* PATABLE and the range checks in manual mode (SpecPower). *)

(* The error kinds of the design, as the exceptions rf.py raises for them. *)
PowerFieldOutOfRange == {ErrLodiv, ErrPaPower}

RegisterAccessUnavailable == {ErrFrend0Read}

PatableTooLong == {ErrPatableLen}

ReadOk == "peek" \in dev0.caps /\ dev0.peekMode = "ok"

ReadNone == "peek" \notin dev0.caps \/ dev0.peekMode \in {"raises", "none"}

RegsWork == ReadOk /\ "poke" \in dev0.caps /\ dev0.pokeLeft = -1

FieldsOk == (PaField = None \/ PaGiven) /\ (LodivField = None \/ LodivGiven)

FieldsBad ==
    \/ PaField.t = "int" /\ PaField.v \notin 0..7
    \/ LodivField.t = "int" /\ LodivField.v \notin 0..3

AskRequested == req.modulation \in {"ASK_OOK", "ask_pwm", "ook"}

SinglePatable == req.patable \in {IntV(96), StrV(<<"0xC0">>)}

SingleValue == IF req.patable = IntV(96) THEN 96 ELSE 192

(* What a single value v with PA_POWER p is to write, as <<index, byte>>. *)
SingleWrites(ask, p, v) ==
    IF ask THEN {<<0, 0>>} \cup {<<i, v>> : i \in 1..p} ELSE {<<i, v>> : i \in 0..p}

(* Each PATABLE register holds what was written to it, or what it held. *)
PatableHolds(writes) ==
    \A i \in 0..7 :
        IF \E w \in writes : w[1] = i
        THEN <<i, dev.xdata[PA_TABLE0_ADDR - i]>> \in writes
        ELSE dev.xdata[PA_TABLE0_ADDR - i] = dev0.xdata[PA_TABLE0_ADDR - i]

ListGiven == \E n \in 1..MaxPatableLen : req.patable = PatableList(n)

ListLen == Len(req.patable.items)

ListWrites == {<<i - 1, 16 * i + 2>> : i \in 1..ListLen}

(* C4: manual mode with a single PATABLE value v and pa_power p in 0..7     *)
(* writes, for ASK/OOK, 0x00 at index 0 and v at exactly 1..p, and for any  *)
(* other modulation v at exactly 0..p; no index above p is ever written.    *)
C4_SingleValueFill ==
    (Done /\ Mode = "manual" /\ SinglePatable /\ PaGiven) =>
        /\ (RegsWork /\ FieldsOk) => result = "ok"
        /\ result = "ok" =>
              /\ PatableWrites = SingleWrites(AskRequested, PaField.v, SingleValue)
              /\ PatableHolds(PatableWrites)
        /\ \A w \in PatableWrites : w[1] <= PaField.v

C4_Witness ==
    /\ result = "ok" /\ Mode = "manual" /\ req.modulation = "ASK_OOK"
    /\ req.patable = IntV(96) /\ PaField = IntV(3)
    /\ PatableWrites = {<<0, 0>>, <<1, 96>>, <<2, 96>>, <<3, 96>>}

(* C5 as claimed: a PATABLE list of n values, 1 <= n <= 8, is written      *)
(* verbatim, value i at index i and nothing else, for every modulation and *)
(* every n, n = 1 included.                                                *)
C5_ListVerbatim ==
    (result = "ok" /\ Mode = "manual" /\ ListGiven /\ ListLen <= 8) =>
        PatableWrites = ListWrites

(* C5 as amended: a list of n values with 2 <= n <= 8 is written verbatim, *)
(* value i at index i and nothing else, for every modulation; a list of    *)
(* one value is treated as the single value (index 0 forced to 0x00 for    *)
(* ASK/OOK, the value filled up to pa_power); a list of more than 8 values *)
(* fails with PatableTooLong and writes no PATABLE entry.                  *)
C5_ListVerbatimFromTwo ==
    (Done /\ Mode = "manual" /\ ListGiven) =>
        /\ (RegsWork /\ FieldsOk) =>
              result = (IF ListLen > 8 THEN ErrPatableLen ELSE "ok")
        /\ (result = "ok" /\ ListLen >= 2) =>
              PatableWrites = ListWrites /\ PatableHolds(ListWrites)
        /\ (result = "ok" /\ ListLen = 1 /\ PaGiven) =>
              PatableWrites = SingleWrites(AskRequested, PaField.v, 18)
        /\ ListLen > 8 => result # "ok" /\ PatableWrites = {}

C5_Witness ==
    /\ result = "ok" /\ Mode = "manual" /\ req.modulation = "ASK_OOK"
    /\ req.patable = PatableList(3)
    /\ PatableWrites = {<<0, 18>>, <<1, 34>>, <<2, 50>>}

(* C6: manual mode with pa_power outside 0..7, or lodiv present and outside *)
(* 0..3, fails, and no register has been written when it does; the failure *)
(* is PowerFieldOutOfRange (lodiv checked first) whenever FREND0 could be   *)
(* read back, the read-back being the step before the range checks.         *)
C6_OutOfRangeRejected ==
    (Done /\ Mode = "manual" /\ FieldsBad) =>
        /\ result # "ok"
        /\ NoRegisterWritten
        /\ ReadOk =>
              /\ result \in PowerFieldOutOfRange
              /\ result = ErrLodiv <=> (LodivField.t = "int" /\ LodivField.v \notin 0..3)
        /\ ReadNone => result \in RegisterAccessUnavailable

C6_Witness ==
    /\ Mode = "manual" /\ PaField = IntV(8) /\ LodivField = IntV(3)
    /\ ReadOk /\ Called("peek")
    /\ result = ErrPaPower
    /\ NoRegisterWritten

-----------------------------------------------------------------------------
(* Register access missing in manual mode (Spec); smart mode (SpecPower, Spec). *)

Count(op) == Len(SelectSeq(calls, LAMBDA c : c.op = op))

Call1(op, a) == [op |-> op, a |-> a, v |-> 0, ok |-> TRUE]

(* The request gets as far as the power programming of transmit. *)
PowerReached ==
    /\ ~req.max_power
    /\ req.modulation \in {"ASK_OOK", "ook", "2FSK"}
    /\ dev0.failAt = "none"

ReadEmpty == "peek" \in dev0.caps /\ dev0.peekMode = "empty"

SmartRequested == Mode \in {"smart", "SMART", ""}

DbmField == req.tx_power_target_dbm

(* The target dBm values the design lists for every band. *)
ListedDbm == {-30, -20, -15, -10, -5, 0, 5, 7, 10}

LookupHit == DbmField.t = "int" /\ DbmField.v \in ListedDbm

LookupMiss == DbmField.t = "int" /\ DbmField.v \notin ListedDbm

ResolvedBand == _select_band(req.freq, req.tx_power_band)

TableCode ==
    POWER_TABLE[ResolvedBand][CHOOSE i \in DOMAIN DbmKeys : DbmKeys[i] = DbmField.v]

CanRegs == "peek" \in dev0.caps /\ "poke" \in dev0.caps

(* C7: manual mode on a device whose FREND0 cannot be read back (no peek(),  *)
(* or a peek() that raises or returns None) fails with                      *)
(* RegisterAccessUnavailable; nothing is written to FREND0 or PATABLE and   *)
(* the payload is not sent.  (A peek() that returns an empty value fails    *)
(* the trigger the same way, with the IndexError of cur[0].)                *)
C7_ManualNeedsReadBack ==
    (Done /\ PowerReached /\ Mode = "manual" /\ (ReadNone \/ ReadEmpty)) =>
        /\ result = (IF ReadNone THEN ErrFrend0Read ELSE ErrIndex)
        /\ ReadNone => result \in RegisterAccessUnavailable
        /\ NoRegisterWritten
        /\ ~Called("makePktFLEN") /\ ~Called("RFxmit")

C7_Witness ==
    /\ PowerReached /\ Mode = "manual" /\ "peek" \notin dev0.caps
    /\ result = ErrFrend0Read
    /\ Called("setFreq") /\ ~Called("RFxmit")
    /\ calls[Len(calls)].op = "setModeIDLE"

(* C8: smart mode on a lookup hit with working register access sets, for    *)
(* ASK/OOK, PA_POWER = 1, PATABLE[0] = 0x00 and PATABLE[1] = code, and for  *)
(* any other modulation PA_POWER = 0 and PATABLE[0] = code, where code is   *)
(* the table entry of (resolved band, target dBm): 0x60 for band 433, 0 dBm.*)
C8_SmartHitPrograms ==
    (Done /\ SmartRequested /\ LookupHit /\ RegsWork /\ (LodivField = None \/ LodivGiven)) =>
        /\ result = "ok"
        /\ Frend0 % 8 = (IF AskRequested THEN 1 ELSE 0)
        /\ PatableWrites =
              (IF AskRequested THEN {<<0, 0>>, <<1, TableCode>>} ELSE {<<0, TableCode>>})
        /\ PatableHolds(PatableWrites)
        /\ ~Called("setPower") /\ ~Called("setTxPower") /\ ~Called("setMaxPower")
        /\ (ResolvedBand = 433 /\ DbmField.v = 0) => TableCode = 96
        /\ (ResolvedBand = 868 /\ DbmField.v = -5) => TableCode = 143

C8_Witness ==
    /\ result = "ok" /\ Mode = "smart" /\ req.modulation = "ASK_OOK"
    /\ req.freq = 433920000 /\ req.tx_power_band = None /\ DbmField = IntV(0)
    /\ PatableWrites = {<<0, 0>>, <<1, 96>>}
    /\ Frend0 = 201

(* C9: smart mode with a target dBm that is not one of the listed values    *)
(* degrades to Max: one set_max_power call, a warning, no exception, no     *)
(* register read or written, and the payload is sent.                       *)
C9_SmartMissDegradesToMax ==
    (Done /\ PowerReached /\ SmartRequested /\ LookupMiss) =>
        /\ result = "ok"
        /\ Count("setMaxPower") = 1
        /\ Len(warns) = 1
        /\ ~Called("peek") /\ ~Called("poke") /\ NoRegisterWritten
        /\ ~Called("setPower") /\ ~Called("setTxPower")
        /\ Count("RFxmit") = 1

C9_Witness ==
    /\ PowerReached /\ Mode = "smart" /\ DbmField = IntV(3)
    /\ result = "ok"
    /\ Count("setMaxPower") = 1 /\ Count("RFxmit") = 1
    /\ ~Called("peek")

(* C10 as claimed: smart mode on a lookup hit without register read/write   *)
(* capability makes the direct set-power-code call if the radio has one and *)
(* the set_max_power call otherwise, with a warning in both cases and no    *)
(* exception.                                                               *)
C10_WarnsInBothCases ==
    (Done /\ SmartRequested /\ LookupHit /\ ~CanRegs) =>
        /\ result = "ok"
        /\ Len(warns) >= 1
        /\ Count("setPower") + Count("setTxPower") + Count("setMaxPower") = 1

(* C10 as amended: smart mode on a lookup hit without register read/write   *)
(* capability makes exactly the direct set-power-code call with the table   *)
(* code if the radio has one (setPower, else setTxPower), and no warning is *)
(* emitted for it; otherwise it calls set_max_power and emits one warning.  *)
(* No exception is raised and no register is read or written.               *)
C10_WarnsOnlyForMax ==
    (Done /\ SmartRequested /\ LookupHit /\ ~CanRegs) =>
        /\ result = "ok"
        /\ NoRegisterWritten
        /\ "setPower" \in dev0.caps =>
              calls = <<Call1("setPower", TableCode)>> /\ warns = <<>>
        /\ ("setPower" \notin dev0.caps /\ "setTxPower" \in dev0.caps) =>
              calls = <<Call1("setTxPower", TableCode)>> /\ warns = <<>>
        /\ ("setPower" \notin dev0.caps /\ "setTxPower" \notin dev0.caps) =>
              calls = <<Call1("setMaxPower", 0)>> /\ Len(warns) = 1

C10_Witness ==
    /\ Mode = "smart" /\ LookupHit /\ "peek" \notin dev0.caps
    /\ "setPower" \notin dev0.caps /\ "setTxPower" \in dev0.caps
    /\ result = "ok"
    /\ calls = <<Call1("setTxPower", 96)>>
    /\ warns = <<>>

-----------------------------------------------------------------------------
(* The modes Max and Default, unknown modes, the return to idle. *)

MaxWords == {"max", " max ", "full"}

DefaultWords == {"default", "AUTO", "keep"}

UnknownWords == {"bogus", " "}

(* The last call made on the device. *)
LastCall == calls[Len(calls)]

(* The device call at which this device raises was made. *)
StepFailed == \E i \in DOMAIN calls : calls[i].op = dev0.failAt /\ ~calls[i].ok

Sent == \E i \in DOMAIN calls : calls[i].op = "RFxmit" /\ calls[i].ok

(* C11: power mode Max makes exactly one set_max_power call and reads or    *)
(* writes no register; power mode Default makes no call at all and leaves   *)
(* the power registers untouched.                                           *)
C11_MaxAndDefault ==
    /\ (Done /\ Mode \in MaxWords /\ "setMaxPower" \in dev0.caps) =>
          /\ result = "ok"
          /\ calls = <<Call1("setMaxPower", 0)>>
          /\ dev.xdata = dev0.xdata
    /\ (Done /\ Mode \in DefaultWords) =>
          /\ result = "ok"
          /\ calls = <<>>
          /\ dev.xdata = dev0.xdata

C11_Witness ==
    /\ Mode = "keep" /\ result = "ok" /\ calls = <<>>
    /\ {"peek", "poke", "setMaxPower", "setPower"} \subseteq dev0.caps

C15_IdleFailureSwallowed ==
    (Done /\ dev0.idleFails) =>
        /\ ~LastCall.ok
        /\ result # ErrIdle
        /\ Sent <=> result = "ok"
        /\ StepFailed => result = ErrDevice

C15_Witness ==
    /\ dev0.idleFails /\ dev0.failAt = "none" /\ result = "ok"
    /\ Sent /\ LastCall = [op |-> "setModeIDLE", a |-> 0, v |-> 0, ok |-> FALSE]

-----------------------------------------------------------------------------
(* Chips and bytes (SpecPack, SpecChips, SpecSub). *)

Returns == ret.t = "ok"

(* Bit p (0 = least significant) of a byte. *)
BitOfByte(v, p) == (v \div (2 ^ p)) % 2

(* Chip i of the sequence, 0 past its end. *)
ChipOrPad(bits, i) == IF i <= Len(bits) THEN bits[i] ELSE 0

(* C18: pack returns ceil(n/8) bytes; chip 8k+j+1 (0 past the end of the     *)
(* chips) is bit 7-j of byte k in MsbFirst order and bit j in LsbFirst      *)
(* order; pack([1,0,0,0,0,0,0,0], LsbFirst) = 0x01.                         *)
C18_PackLayout ==
    (call.fn = "_pack_bits" /\ ret # Pending) =>
        /\ Returns
        /\ Len(ret.v) = (Len(call.bits) + 7) \div 8
        /\ \A k \in 1..Len(ret.v) :
              /\ ret.v[k] \in 0..255
              /\ \A j \in 0..7 :
                    BitOfByte(ret.v[k], IF call.msb_first THEN 7 - j ELSE j)
                      = ChipOrPad(call.bits, 8 * (k - 1) + j + 1)
        /\ (call.bits = <<1, 0, 0, 0, 0, 0, 0, 0>> /\ ~call.msb_first) => ret.v = <<1>>

C18_Witness ==
    /\ call.fn = "_pack_bits" /\ call.bits = <<1, 0, 0, 0, 0, 0, 0, 0, 1>>
    /\ ~call.msb_first
    /\ ret = Returned(<<1, 1>>)

(* The integer nearest to n / 1000000, the even one of two equally near. *)
NearestChips(n) ==
    CHOOSE r \in 0..(n \div 1000000 + 1) :
        /\ 2 * Abs(n - r * 1000000) <= 1000000
        /\ (2 * Abs(n - r * 1000000) = 1000000) => r % 2 = 0

Min(a, b) == IF a < b THEN a ELSE b

Max(a, b) == IF a > b THEN a ELSE b

RunLength(d) == Max(1, NearestChips(Min(Abs(d), call.max_gap_us) * call.drate))

RunLevel(d) == IF (d > 0) # call.invert_level THEN 1 ELSE 0

(* The number of chips of the first i runs. *)
RECURSIVE RunsBefore(_)
RunsBefore(i) == IF i = 0 THEN 0 ELSE RunsBefore(i - 1) + RunLength(call.durs[i])

(* C19: durations_to_chips emits for each duration d, in order, one run of   *)
(* max(1, round(min(|d|, max_gap_us) * rate / 1000000)) chips (round to the *)
(* nearest integer, a tie to the even one) of level 1 iff (d > 0) XOR       *)
(* invert, and nothing else; eight alternating +1000/-1000 us at 1000 Hz    *)
(* pack MsbFirst to 0xAA.                                                   *)
C19_OneRunPerDuration ==
    (call.fn = "_durations_to_bits" /\ ret # Pending) =>
        /\ Returns
        /\ Len(ret.v) = RunsBefore(Len(call.durs))
        /\ \A i \in 1..Len(call.durs) :
              /\ RunLength(call.durs[i]) >= 1
              /\ \A k \in (RunsBefore(i - 1) + 1)..RunsBefore(i) :
                    ret.v[k] = RunLevel(call.durs[i])
        /\ (call.durs = EightAlternating /\ call.drate = 1000 /\ ~call.invert_level
              /\ call.max_gap_us = 30000) =>
                 _pack_bits(ret.v, TRUE) = <<170>>

C19_Witness ==
    /\ call.fn = "_durations_to_bits" /\ call.durs = <<150, -2500>>
    /\ call.drate = 1000 /\ call.max_gap_us = 30000 /\ ~call.invert_level
    /\ ret = Returned(<<1, 0, 0>>)

(* The captures of the file: its RAW_Data lines that hold a number. *)
Captures == SelectSeq(file.lines, LAMBDA l : l.t = "raw" /\ l.nums # <<>>)

Decodable ==
    /\ file.exists
    /\ \E i \in DOMAIN file.lines : file.lines[i].t = "freq"
    /\ \A i \in DOMAIN file.lines : file.lines[i].t = "freq" => file.lines[i].v.t = "int"
    /\ Len(Captures) >= 1

BadIndex == call.raw_index < 0 \/ call.raw_index >= Len(Captures)

DecodedFrom(durs) ==
    _pack_bits(_durations_to_bits(durs, call.drate, call.invert_level, call.max_gap_us),
               call.msb_first)

(* C20: for a capture file with at least one pulse sequence, an index       *)
(* outside the valid range (too large or negative) selects capture 0 and    *)
(* decode returns a result.                                                 *)
C20_BadIndexSelectsFirst ==
    (call.fn = "parse_flipper_sub" /\ ret # Pending /\ Decodable /\ BadIndex) =>
        /\ Returns
        /\ ret.v.payload = DecodedFrom(Captures[1].nums)

-----------------------------------------------------------------------------
(* Requests from files (SpecParse) and triggers (SpecTrigger). *)

(* C17: every request get_tx_request returns has frequency > 0, a non-empty *)
(* payload, repeat >= 1 and data rate > 0; a file that cannot satisfy them  *)
(* is rejected with an error.                                               *)
C17_RequestInvariants ==
    (call.fn = "get_tx_request" /\ Returns) =>
        /\ ret.v.freq > 0
        /\ ret.v.payload # <<>>
        /\ ret.v.repeat >= 1
        /\ ret.v.drate > 0

(* The trace entries that are calls of the given function. *)
CallsOf(fn) == Len(SelectSeq(trace, LAMBDA e : e = fn))

Printed(m) == \E i \in DOMAIN trace : trace[i] = m

(* A press on a mapped topic whose file is not a script. *)
Triggered == msg.mapped /\ IsPress(msg.text) /\ file.kind # "py"

ParseFailed == ret.t = "err"

(* C16: for every trigger on a mapped topic the file is parsed once; if the *)
(* parse fails the error is printed and no radio call is made; if it        *)
(* succeeds and a radio is present radio.transmit is called exactly once;   *)
(* an exception of transmit is caught: the callback returns normally.       *)
C16_OneTransmitPerTrigger ==
    (Done /\ Triggered) =>
        /\ result = "ok"
        /\ CallsOf("call: get_tx_request") = 1
        /\ ParseFailed =>
              /\ Printed("print: ERROR parsing")
              /\ CallsOf("call: radio.transmit") = 0
              /\ calls = <<>> /\ dev = dev0
        /\ (Returns /\ app.radio) =>
              /\ CallsOf("call: radio.transmit") = 1
              /\ Count("setFreq") = 1 /\ Count("setModeIDLE") = 1
              /\ Printed("print: Transmission complete") <=> Sent
              /\ Printed("print: ERROR during transmission") <=> ~Sent
        /\ (Returns /\ ~app.radio) => calls = <<>>

C16_Witness ==
    /\ Triggered /\ Returns /\ app.radio /\ dev0.failAt = "RFxmit"
    /\ result = "ok"
    /\ Printed("print: ERROR during transmission")
    /\ CallsOf("call: radio.transmit") = 1
    /\ LastCall.op = "setModeIDLE"

(* The descriptor's own power mode: absent, or the text it gives. *)
DescriptorMode ==
    IF file.data.tx_power_mode = Absent THEN "absent" ELSE file.data.tx_power_mode.parts[1]

DescriptorTransmitted ==
    /\ Done /\ Triggered /\ file.kind = "rfcat" /\ Returns /\ app.radio
    /\ dev0.failAt = "none" /\ "peek" \in dev0.caps
    /\ file.data.max_power = Absent

PowerCalls == SelectSeq(calls, LAMBDA c : c.op \in {"setMaxPower", "setPower", "setTxPower"})

RegisterCalls == SelectSeq(calls, LAMBDA c : c.op \in {"peek", "poke"})

(* C12: for a descriptor-file trigger the power action at transmit follows  *)
(* the descriptor's tx_power_mode: absent or "max" gives one set_max_power  *)
(* call; "default" or "auto" gives no power action; "manual" programs       *)
(* FREND0 from the descriptor's frend0_pa_power; "smart" programs the table *)
(* code of the descriptor's tx_power_target_dbm.                            *)
C12_DescriptorModeApplied ==
    DescriptorTransmitted =>
        /\ DescriptorMode \in {"absent", "max"} =>
              Len(PowerCalls) = 1 /\ RegisterCalls = <<>>
        /\ DescriptorMode \in {"default", "auto"} =>
              PowerCalls = <<>> /\ RegisterCalls = <<>>
        /\ DescriptorMode = "manual" =>
              PowerCalls = <<>> /\ Frend0 % 8 = file.data.frend0_pa_power.v
        /\ (DescriptorMode = "smart" /\ file.data.tx_power_target_dbm = IntV(10)) =>
              /\ PowerCalls = <<>>
              /\ dev.xdata[PA_TABLE0_ADDR - 1] = POWER_TABLE[433][9]

-----------------------------------------------------------------------------
(* Missing input and payload sources (SpecParse). *)

GotRequest == call.fn = "get_tx_request" /\ ret # Pending

IsCapture == file.kind = "sub" /\ file.exists

IsDescriptor == file.kind = "rfcat" /\ file.exists /\ file.json = "object"

HasFrequencyLine == \E i \in DOMAIN file.lines : file.lines[i].t = "freq"

(* Every "Frequency:" line of the capture holds an integer. *)
FrequencyLinesRead ==
    \A i \in DOMAIN file.lines : file.lines[i].t = "freq" => file.lines[i].v.t = "int"

NoFrequencyKey == \A k \in {"frequency", "freq", "freq_hz"} : file.data[k] = Absent

PayloadSourceKeys ==
    {"payload", "payload_hex", "payload_b64", "raw_durations", "raw_durations_us"}

NoPayloadSource == \A k \in PayloadSourceKeys : file.data[k] = Absent

(* The descriptor's frequency and modem fields all convert with int(). *)
ModemFieldsConvert ==
    /\ \E k \in {"frequency", "freq", "freq_hz"} : file.data[k].t = "int"
    /\ \A k \in {"frequency", "freq", "freq_hz", "drate", "deviation", "syncmode",
                 "preamble", "repeat"} : file.data[k].t \in {"absent", "int"}

(* C21: a capture with no frequency line fails with "No Frequency found"; a *)
(* capture with a frequency and no pulse durations fails with "No RAW_Data  *)
(* found"; a descriptor with none of frequency, freq, freq_hz fails with    *)
(* "Missing frequency"; a descriptor with a frequency and none of the       *)
(* payload sources fails with "Missing payload" (its other fields being     *)
(* integers) and in every one of these cases no request is returned.        *)
C21_MissingInputRejected ==
    GotRequest =>
        /\ (IsCapture /\ ~HasFrequencyLine) => ret = Raised(ErrNoFrequency)
        /\ (IsCapture /\ HasFrequencyLine /\ Captures = <<>>) =>
              /\ ~Returns
              /\ FrequencyLinesRead => ret = Raised(ErrNoRawData)
        /\ (IsDescriptor /\ NoFrequencyKey) => ret = Raised(ErrMissingFrequency)
        /\ (IsDescriptor /\ ~NoFrequencyKey /\ NoPayloadSource) =>
              /\ ~Returns
              /\ ModemFieldsConvert => ret = Raised(ErrMissingPayload)

C21_Witness ==
    /\ GotRequest /\ IsDescriptor /\ ~NoFrequencyKey /\ NoPayloadSource
    /\ ModemFieldsConvert
    /\ ret = Raised(ErrMissingPayload)

(* The descriptor gives, per source, nothing or the sample value. *)
Mixed ==
    /\ IsDescriptor
    /\ file.data.frequency = IntV(433920000) /\ file.data.drate = IntV(1000)
    /\ file.data.payload \in {Absent, ListSample}
    /\ file.data.payload_hex \in {Absent, HexSample}
    /\ file.data.payload_b64 \in {Absent, B64Sample}
    /\ file.data.raw_durations \in {Absent, RawSample}
    /\ file.data.raw_durations_us \in {Absent, RawSample}
    /\ file.data.repeat = Absent

GivesList == file.data.payload # Absent
GivesHex == file.data.payload_hex # Absent
GivesB64 == file.data.payload_b64 # Absent
GivesRaw == file.data.raw_durations # Absent \/ file.data.raw_durations_us # Absent

(* The declared modulation in upper case, ASK_OOK when none is declared. *)
DeclaredModulation ==
    CASE file.data.modulation = Absent -> "ASK_OOK"
      [] file.data.modulation = StrV(<<"2fsk">>) -> "2FSK"
      [] file.data.modulation = StrV(<<"GFSK">>) -> "GFSK"
      [] file.data.modulation = StrV(<<"ook">>) -> "OOK"

(* C22: the payload of a descriptor comes from the first source present in  *)
(* the order byte list, hex string, base64 text, pulse durations, the other *)
(* sources being ignored; the modulation is ASK_OOK when the payload came   *)
(* from the pulse durations and the declared one (in upper case) otherwise; *)
(* with no source there is no request.                                      *)
C22_PayloadSourcePriority ==
    (GotRequest /\ Mixed) =>
        /\ Returns <=> (GivesList \/ GivesHex \/ GivesB64 \/ GivesRaw)
        /\ GivesList => ret.v.payload = <<1>>
        /\ (~GivesList /\ GivesHex) => ret.v.payload = <<2>>
        /\ (~GivesList /\ ~GivesHex /\ GivesB64) => ret.v.payload = <<170, 85>>
        /\ (~GivesList /\ ~GivesHex /\ ~GivesB64 /\ GivesRaw) =>
              ret.v.payload = <<128>> /\ ret.v.modulation = "ASK_OOK"
        /\ (GivesList \/ GivesHex \/ GivesB64) => ret.v.modulation = DeclaredModulation

C22_Witness ==
    /\ GotRequest /\ Mixed /\ Returns
    /\ ~GivesList /\ GivesHex /\ GivesB64 /\ GivesRaw
    /\ file.data.modulation = StrV(<<"2fsk">>)
    /\ ret.v.payload = <<2>> /\ ret.v.modulation = "2FSK"

-----------------------------------------------------------------------------
(* Band resolution (SpecBand). *)

(* The band an override names, 0 when it names none. *)
NamedBand ==
    CASE call.override.t = "int" ->
            IF call.override.v \in {315, 433, 868, 915} THEN call.override.v ELSE 0
      [] call.override = StrV(<<"315">>) -> 315
      [] call.override = StrV(<<"433">>) -> 433
      [] call.override = StrV(<<" 868">>) -> 868
      [] call.override = StrV(<<"0x393">>) -> 915
      [] OTHER -> 0

(* The band bucket of the frequency. *)
FrequencyBand ==
    CASE call.freq_hz \in 0..379999999 -> 315
      [] call.freq_hz \in 380000000..599999999 -> 433
      [] call.freq_hz \in 600000000..899999999 -> 868
      [] OTHER -> 915

(* C23: an override naming 315, 433, 868 or 915 is the resolved band for    *)
(* every frequency; for "auto", an absent or any other override the band is *)
(* that of the frequency: 315 below 380 MHz, 433 below 600 MHz, 868 below   *)
(* 900 MHz, else 915, the boundary frequencies belonging to the higher band. *)
C23_BandResolution ==
    (call.fn = "_select_band" /\ ret # Pending) =>
        /\ Returns
        /\ ret.v = (IF NamedBand # 0 THEN NamedBand ELSE FrequencyBand)
        /\ (NamedBand = 0 /\ call.freq_hz = 300000000) => ret.v = 315
        /\ (NamedBand = 0 /\ call.freq_hz = 380000000) => ret.v = 433
        /\ (NamedBand = 0 /\ call.freq_hz = 450000000) => ret.v = 433
        /\ (NamedBand = 0 /\ call.freq_hz = 600000000) => ret.v = 868
        /\ (NamedBand = 0 /\ call.freq_hz = 870000000) => ret.v = 868
        /\ (NamedBand = 0 /\ call.freq_hz = 900000000) => ret.v = 915
        /\ (NamedBand = 0 /\ call.freq_hz = 920000000) => ret.v = 915

C23_Witness ==
    /\ call.fn = "_select_band" /\ Returns
    /\ call.override = StrV(<<"bogus">>) /\ call.freq_hz = 600000000
    /\ ret.v = 868

-----------------------------------------------------------------------------
(* The modem settings of transmit (Spec). *)

FskRequested == req.modulation \in {"2FSK"}

DeviationCalls == SelectSeq(calls, LAMBDA c : c.op = "setMdmDeviatn")

(* C24: setMdmDeviatn is called during transmit only when the request has a *)
(* deviation and an FSK modulation, never for ASK/OOK even with a deviation; *)
(* a 2FSK request with a deviation that gets through sets it exactly once,   *)
(* to the requested value.                                                   *)
C24_DeviationOnlyForFsk ==
    Done =>
        /\ Called("setMdmDeviatn") => (req.deviation # None /\ FskRequested)
        /\ AskRequested => ~Called("setMdmDeviatn")
        /\ (FskRequested /\ req.deviation # None /\ result = "ok") =>
              /\ Len(DeviationCalls) = 1
              /\ DeviationCalls[1].a = req.deviation.v

C24_Witness ==
    /\ Done /\ AskRequested /\ req.deviation = IntV(5000) /\ result = "ok"
    /\ Sent /\ ~Called("setMdmDeviatn")

ModemCalls ==
    SelectSeq(calls, LAMBDA c : c.op \in {"setMdmModulation", "setMdmDRate", "setMdmSyncMode",
                                          "setMdmNumPreamble", "setMdmManchester",
                                          "setMdmDeviatn"})

(* C25: transmit accepts the modulations ASK_OOK, FSK2, GFSK and MSK and    *)
(* fails with the unknown-modulation error for any other value; on that     *)
(* failure no modem setting and no power action is applied and the payload  *)
(* is not sent.                                                             *)
C25_EnumAccepted ==
    Done =>
        /\ req.modulation \in {"ASK_OOK", "2FSK", "GFSK", "MSK"} => result # ErrModulation
        /\ (req.modulation = "NOPE" /\ dev0.failAt # "setFreq") =>
              /\ result = ErrModulation
              /\ ModemCalls = <<>> /\ PowerCalls = <<>> /\ RegisterCalls = <<>>
              /\ ~Called("makePktFLEN") /\ ~Called("RFxmit")

-----------------------------------------------------------------------------
(* Discovery clean-up (SpecDiscovery). *)

(* A run has just ended, in stale mode, with the scan directory present. *)
StaleRunEnded ==
    /\ run.phase = "ran"
    /\ run.cfg.discovery_cleanup \in {"stale", "bogus"}
    /\ disk.present

(* The files of the scan directory that get a button under the run's config. *)
ButtonFiles ==
    {f \in disk.files :
        \/ f.name \in {"gate.sub", "gate.rfcat.json", "My Gate.sub", "Fan.SUB"}
        \/ f.name = "lamp.py" /\ run.cfg.allow_py}

(* The button topic of each file, written out. *)
TopicOf(f) ==
    CASE f.name \in {"gate.sub", "gate.rfcat.json"} ->
            [kind |-> "button", device |-> "main", id |-> "gate"]
      [] f.name = "My Gate.sub" -> [kind |-> "button", device |-> "main", id |-> "my_gate"]
      [] f.name = "lamp.py" -> [kind |-> "button", device |-> "main", id |-> "lamp"]
      [] f.name = "Fan.SUB" -> [kind |-> "button", device |-> "living_room", id |-> "fan"]

TopicsOfFiles == {HubTopic} \cup {TopicOf(f) : f \in ButtonFiles}

Stage(op) ==
    CASE op = "setFreq" -> 1
      [] op = "setMdmModulation" -> 2
      [] op = "setMdmDRate" -> 3
      [] op = "setMdmSyncMode" -> 4
      [] op = "setMdmNumPreamble" -> 5
      [] op = "setMdmManchester" -> 6
      [] op = "setMdmDeviatn" -> 7
      [] op \in {"setMaxPower", "setPower", "setTxPower", "peek", "poke"} -> 8
      [] op = "makePktFLEN" -> 9
      [] op = "RFxmit" -> 10
      [] op = "setModeIDLE" -> 11

IsPowerCall(c) == Stage(c.op) = 8

(* C27: in a successful transmit the device calls are, in this order,       *)
(* setFreq, the modem settings (modulation, data rate, sync mode, preamble, *)
(* optional deviation), the power action (a direct call or register reads   *)
(* and writes), makePktFLEN, RFxmit and setModeIDLE; and in every transmit  *)
(* no power call precedes setFreq or setMdmModulation or follows RFxmit.    *)
C27_CallOrder ==
    Done =>
        /\ result = "ok" =>
              /\ \A i, j \in DOMAIN calls : i < j => Stage(calls[i].op) <= Stage(calls[j].op)
              /\ \A op \in {"setFreq", "setMdmModulation", "setMdmDRate", "setMdmSyncMode",
                            "setMdmNumPreamble", "makePktFLEN", "RFxmit", "setModeIDLE"} :
                    Count(op) = 1
        /\ \A i \in DOMAIN calls :
              IsPowerCall(calls[i]) =>
                 /\ \E j \in 1..(i - 1) : calls[j].op = "setFreq"
                 /\ \E j \in 1..(i - 1) : calls[j].op = "setMdmModulation"
                 /\ \A j \in 1..(i - 1) : calls[j].op # "RFxmit"

C27_Witness ==
    /\ Done /\ result = "ok" /\ Mode = "manual" /\ ~req.max_power
    /\ req.deviation = IntV(5000) /\ FskRequested
    /\ Called("setMdmDeviatn") /\ Called("peek") /\ Called("poke") /\ Sent
    /\ LastCall.op = "setModeIDLE"

-----------------------------------------------------------------------------
(* Failures of the register path (SpecPower, Spec). *)

(* C28: manual mode is all-or-nothing on failure: when manual programming   *)
(* fails with PatableTooLong or because a PATABLE write cannot be performed, *)
(* no register has been modified: FREND0 holds its read-back value and no   *)
(* PATABLE entry has been written.                                          *)
C28_ManualAllOrNothing ==
    (Done /\ Mode = "manual" /\ result \in {ErrPatableLen, ErrPatableWrite}) =>
        /\ Frend0 = ReadBack
        /\ PatableWrites = {}
        /\ dev.xdata = dev0.xdata

-----------------------------------------------------------------------------
(* Smart mode: failures of the register path (Spec). *)

LodivOutOfRange == LodivField.t = "int" /\ LodivField.v \notin 0..3

(* The device takes too few pokes for the smart layout: every layout writes *)
(* PA_TABLE0, and the ASK/OOK layout writes PA_TABLE0 and PA_TABLE1.        *)
WriteRefused == dev0.pokeLeft = 0 \/ (dev0.pokeLeft = 1 /\ AskRequested)

RegisterPathFails == ~ReadOk \/ WriteRefused \/ LodivOutOfRange

(* C29: in smart mode with a lookup hit on a radio that has peek and poke,  *)
(* a failure of the register path (the read-back fails, a register write is *)
(* refused, or lodiv is outside 0..3) does not propagate: one warning is    *)
(* logged, the only power call is the direct set-power-code call with the   *)
(* looked-up code (setPower, else setTxPower, else set_max_power), and the  *)
(* payload is sent.  Smart mode never ends in PowerFieldOutOfRange.         *)
C29_SmartRegisterFailureFallsBack ==
    /\ (Done /\ PowerReached /\ SmartRequested /\ LookupHit /\ CanRegs /\ RegisterPathFails) =>
          /\ result = "ok"
          /\ Sent
          /\ "setPower" \in dev0.caps => PowerCalls = <<Call1("setPower", TableCode)>>
          /\ ("setPower" \notin dev0.caps /\ "setTxPower" \in dev0.caps) =>
                PowerCalls = <<Call1("setTxPower", TableCode)>>
          /\ ("setPower" \notin dev0.caps /\ "setTxPower" \notin dev0.caps) =>
                PowerCalls = <<Call1("setMaxPower", 0)>>
          /\ Len(warns) >= 1
    /\ (Done /\ SmartRequested) => result \notin {ErrLodiv, ErrPaPower}

C29_Witness ==
    /\ Mode = "smart" /\ LookupHit /\ ReadOk /\ dev0.pokeLeft = -1
    /\ LodivField = IntV(4)
    /\ "setPower" \notin dev0.caps /\ "setTxPower" \in dev0.caps
    /\ result = "ok"
    /\ Sent
    /\ PowerCalls = <<Call1("setTxPower", 96)>>
    /\ Pokes = <<>>

-----------------------------------------------------------------------------
(* max_power overrides the power mode (SpecTrigger; the first part also     *)
(* holds of Spec).                                                          *)

(* The file is a capture, or a descriptor whose max_power is absent or true. *)
AsksMaxPower ==
    \/ file.kind = "sub"
    \/ file.kind = "rfcat" /\ file.data.max_power \in {Absent, BoolV(TRUE)}

OnlyMaxPowerCalls ==
    /\ Len(PowerCalls) <= 1
    /\ \A i \in DOMAIN PowerCalls : PowerCalls[i].op = "setMaxPower"

PowerErrors == {ErrPowerMode, ErrLodiv, ErrPaPower, ErrPatableLen, ErrPatableWrite,
                ErrPatableIndex, ErrFrend0Write}

(* The modulation names transmit knows; any other raises before the power   *)
(* step is reached.                                                         *)
ModulationAccepted == req.modulation \in {"ASK_OOK", "OOK", "ASK", "2FSK", "FSK"}

(* C30: a transmit whose request carries max_power = true reads and writes  *)
(* no register, makes no power call but set_max_power (exactly one when the *)
(* transmit gets through), and raises no power-mode or power-field error,   *)
(* whatever tx_power_mode and the manual/smart fields are.  A request built *)
(* from a capture, or from a descriptor whose max_power is absent or true,  *)
(* carries max_power = true, so its trigger gets the Max action whatever    *)
(* tx_power_mode the configuration or the descriptor names (on a radio     *)
(* that raises at no call, for a modulation transmit accepts).              *)
C30_MaxPowerOverridesMode ==
    /\ (Done /\ req.max_power) =>
          /\ RegisterCalls = <<>>
          /\ NoRegisterWritten
          /\ OnlyMaxPowerCalls
          /\ result \notin PowerErrors
          /\ (Sent /\ "setMaxPower" \in dev0.caps) => PowerCalls = <<Call1("setMaxPower", 0)>>
    /\ (Done /\ Triggered /\ Returns /\ AsksMaxPower) =>
          /\ ret.v.max_power
          /\ app.radio =>
                /\ req.max_power
                /\ req.tx_power_mode \in {"", "smart", "max", "default", "auto", "manual", "bogus"}
                /\ (dev0.failAt = "none" /\ ModulationAccepted) =>
                      /\ PowerCalls = <<Call1("setMaxPower", 0)>>
                      /\ Sent
                      /\ Printed("print: Transmission complete")

C30_Witness ==
    /\ Done /\ Triggered /\ Returns /\ app.radio
    /\ file.kind = "sub"
    /\ app.rf.tx_power_mode = StrV(<<"manual">>)
    /\ req.tx_power_mode = "manual"
    /\ req.max_power
    /\ "peek" \in dev0.caps
    /\ calls # <<>>
    /\ PowerCalls = <<Call1("setMaxPower", 0)>>
    /\ RegisterCalls = <<>>
    /\ Sent

====
